---- MODULE Spec2Model ----
(***************************************************************************)
(* A model of serval's style cascade (src/style.rs, src/css.rs,            *)
(* src/dom.rs), box-tree construction and block layout (src/layout.rs).    *)
(*                                                                         *)
(* Conventions:                                                            *)
(*   - Option<T> is a sequence of length 0 (None) or 1 (Some).             *)
(*   - A String that the code only compares for equality is a TLA+ string; *)
(*     a String that the code scans (the class attribute) is a sequence    *)
(*     of one-character strings.                                           *)
(*   - A reference into a tree (&Node, &StyledNode) is the path of child   *)
(*     indices from the root of that tree; the root is <<>>.               *)
(*   - An f32 of the layout pass is an integer number of half pixels       *)
(*     (Scale), which is exact for every value the pass computes here.     *)
(***************************************************************************)
EXTENDS Integers, Sequences, FiniteSets, TLC

VARIABLES pc, elem, selector, result, selectors, rule, matched,
          stylesheet, values, document, styled, layout_tree,
          containing_block, stack, trace, previous

vars == <<pc, elem, selector, result, selectors, rule, matched,
          stylesheet, values, document, styled, layout_tree,
          containing_block, stack, trace, previous>>

\* Placeholder for a variable that the running specification does not use.
Unused == <<>>

----------------------------------------------------------------------------
(* Bounds *)

\* Longest class attribute string, in characters.
MaxClassLen == 3
\* Longest selector list handed to SortedSelectors::new.
MaxSelectors == 3
\* Most rules in a stylesheet.
MaxRules == 3
\* Most nodes in a document.
MaxNodes == 5
\* Most children of one document node.
MaxChildren == 4
\* Deepest document node (the root is at depth 0).
MaxDepth == 2
\* Most nodes of a document of the layout specification.
MaxLayoutNodes == 4

----------------------------------------------------------------------------
(* Generic helpers *)

Range(s) == {s[i] : i \in 1..Len(s)}

Some(x) == <<x>>
None == <<>>

\* Sequences over S of length lo..hi.
SeqsOf(S, lo, hi) == UNION {[1..n -> S] : n \in lo..hi}

----------------------------------------------------------------------------
(* css.rs: values, selectors, specificity *)

Keyword(s) == [type |-> "Keyword", s |-> s]
Length(n) == [type |-> "Length", px |-> n, unit |-> "Px"]
ColorValue(r, g, b) == [type |-> "ColorValue", r |-> r, g |-> g, b |-> b]

Declaration(name, value) == [name |-> name, value |-> value]

SimpleSelector(tag_name, id_, classes_) ==
    [tag_name |-> tag_name, id |-> id_, classes |-> classes_]

\* Selector::specifity
specifity(sel) ==
    LET a == IF sel.id # None THEN 1 ELSE 0
        b == Cardinality(sel.classes)
        c == IF sel.tag_name # None THEN 1 ELSE 0
    IN  <<a, b, c>>

\* A variant of cmp that compares the tuples from the last field to the first.
cmp_from_last(x, y) ==
    IF x[3] # y[3] THEN (IF x[3] < y[3] THEN "Less" ELSE "Greater")
    ELSE IF x[2] # y[2] THEN (IF x[2] < y[2] THEN "Less" ELSE "Greater")
    ELSE IF x[1] # y[1] THEN (IF x[1] < y[1] THEN "Less" ELSE "Greater")
    ELSE "Equal"

\* Ord::cmp on (usize, usize, usize): lexicographic.
cmp(x, y) ==
    IF x[1] # y[1] THEN (IF x[1] < y[1] THEN "Less" ELSE "Greater")
    ELSE IF x[2] # y[2] THEN (IF x[2] < y[2] THEN "Less" ELSE "Greater")
    ELSE IF x[3] # y[3] THEN (IF x[3] < y[3] THEN "Less" ELSE "Greater")
    ELSE "Equal"

----------------------------------------------------------------------------
(* dom.rs: elements *)

EmptyAttrs == [k \in {} |-> ""]

ElementData(tag_name, attrs, children) ==
    [tag_name |-> tag_name, attrs |-> attrs, children |-> children]

\* ElementData::id
id(e) == IF "id" \in DOMAIN e.attrs THEN Some(e.attrs["id"]) ELSE None

\* str::split(' '): the segments between spaces, empty segments included;
\* the empty string splits into one empty segment.
RECURSIVE split(_, _, _)
split(s, i, cur) ==
    IF i > Len(s) THEN <<cur>>
    ELSE IF s[i] = " " THEN <<cur>> \o split(s, i + 1, <<>>)
    ELSE split(s, i + 1, Append(cur, s[i]))

\* A variant of classes that takes the whole attribute as one class name.
classes_unsplit(e) ==
    IF "class" \in DOMAIN e.attrs THEN {e.attrs["class"]} ELSE {}

\* ElementData::classes
classes(e) ==
    IF "class" \in DOMAIN e.attrs THEN Range(split(e.attrs["class"], 1, <<>>))
    ELSE {}

----------------------------------------------------------------------------
(* style.rs: selector matching *)

matches_simple_selector(e, sel) ==
    IF ~(\A i \in 1..Len(sel.tag_name) : e.tag_name = sel.tag_name[i]) THEN FALSE
    ELSE IF ~(\A i \in 1..Len(sel.id) : id(e) = Some(sel.id[i])) THEN FALSE
    ELSE LET elem_classes == classes(e)
         IN  IF ~(\A class \in sel.classes : class \in elem_classes) THEN FALSE
             ELSE TRUE

matches(e, sel) == matches_simple_selector(e, sel)

----------------------------------------------------------------------------
(* css.rs: rules and sorted selector lists *)

\* slice::sort_by: a stable sort.  Each element is inserted after every
\* element already placed that does not compare Greater than it.  The
\* comparison closure is a function on pairs of elements of s.
sort_by(s, compare) ==
    LET insert(sorted, x) ==
            LET k == Cardinality({i \in 1..Len(sorted) :
                                    compare[<<sorted[i], x>>] # "Greater"})
            IN  SubSeq(sorted, 1, k) \o <<x>> \o SubSeq(sorted, k + 1, Len(sorted))
        f[i \in 0..Len(s)] == IF i = 0 THEN <<>> ELSE insert(f[i - 1], s[i])
    IN  f[Len(s)]

\* SortedSelectors::new
SortedSelectors_new(sels) ==
    [selectors |-> sort_by(sels, [ab \in Range(sels) \X Range(sels) |->
                                    cmp(specifity(ab[2]), specifity(ab[1]))])]

Rule(sorted_selectors, declarations) ==
    [selectors |-> sorted_selectors, declarations |-> declarations]

Stylesheet(rules) == [rules |-> rules]

\* css/parser.rs rule(): the closure that builds a Rule from the parsed
\* selector list and declaration list.
parser_rule(sels, declarations) == Rule(SortedSelectors_new(sels), declarations)

----------------------------------------------------------------------------
(* style.rs: the cascade *)

Min(S) == CHOOSE x \in S : \A y \in S : x <= y

\* A variant of match_selectors that returns the last matching selector.
match_selectors_last(e, sorted_selectors) ==
    LET ss == sorted_selectors.selectors
        found == {i \in 1..Len(ss) : matches(e, ss[i])}
    IN  IF found = {} THEN None
        ELSE Some(ss[CHOOSE i \in found : \A j \in found : j <= i])

\* Iterator::find over the sorted selectors.
match_selectors(e, sorted_selectors) ==
    LET ss == sorted_selectors.selectors
        found == {i \in 1..Len(ss) : matches(e, ss[i])}
    IN  IF found = {} THEN None ELSE Some(ss[Min(found)])

match_rule(e, r) ==
    LET m == match_selectors(e, r.selectors)
    IN  IF m = None THEN None ELSE Some(<<specifity(m[1]), r>>)

\* A variant of matching_rules that keeps every rule, pairing a rule that
\* does not match with the lowest specificity.
matching_rules_all(e, sheet) ==
    LET f[i \in 0..Len(sheet.rules)] ==
            IF i = 0 THEN <<>>
            ELSE LET m == match_rule(e, sheet.rules[i])
                 IN  f[i - 1] \o (IF m = None THEN Some(<<(<<0, 0, 0>>), sheet.rules[i]>>)
                                  ELSE m)
    IN  f[Len(sheet.rules)]

\* filter_map(...).collect()
matching_rules(e, sheet) ==
    LET f[i \in 0..Len(sheet.rules)] ==
            IF i = 0 THEN <<>> ELSE f[i - 1] \o match_rule(e, sheet.rules[i])
    IN  f[Len(sheet.rules)]

EmptyMap == [k \in {} |-> Unused]

\* An insert that keeps the value of a key that is present.
insert_if_absent(m, k, v) ==
    [n \in DOMAIN m \cup {k} |-> IF n \in DOMAIN m THEN m[n] ELSE v]

\* HashMap::insert
insert(m, k, v) == [n \in DOMAIN m \cup {k} |-> IF n = k THEN v ELSE m[n]]

\* The inner loop of css_specified_values over one rule's declarations.
insert_declarations(m, declarations) ==
    LET f[i \in 0..Len(declarations)] ==
            IF i = 0 THEN m
            ELSE insert(f[i - 1], declarations[i].name, declarations[i].value)
    IN  f[Len(declarations)]

\* An unstable sort: an element is inserted before the elements it equals.
sort_by_unstable(s, compare) ==
    LET ins(sorted, x) ==
            LET k == Cardinality({i \in 1..Len(sorted) :
                                    compare[<<sorted[i], x>>] = "Less"})
            IN  SubSeq(sorted, 1, k) \o <<x>> \o SubSeq(sorted, k + 1, Len(sorted))
        f[i \in 0..Len(s)] == IF i = 0 THEN <<>> ELSE ins(f[i - 1], s[i])
    IN  f[Len(s)]

\* A variant of css_specified_values that walks the rules in stylesheet order.
css_specified_values_unsorted(e, sheet) ==
    LET rules == matching_rules(e, sheet)
        f[i \in 0..Len(rules)] ==
            IF i = 0 THEN EmptyMap
            ELSE insert_declarations(f[i - 1], rules[i][2].declarations)
    IN  f[Len(rules)]

\* A variant of css_specified_values whose sort is not stable.
css_specified_values_unstable(e, sheet) ==
    LET rules == sort_by_unstable(matching_rules(e, sheet),
                                  [ab \in Range(matching_rules(e, sheet))
                                             \X Range(matching_rules(e, sheet)) |->
                                      cmp(ab[1][1], ab[2][1])])
        f[i \in 0..Len(rules)] ==
            IF i = 0 THEN EmptyMap
            ELSE insert_declarations(f[i - 1], rules[i][2].declarations)
    IN  f[Len(rules)]


css_specified_values(e, sheet) ==
    LET rules == sort_by(matching_rules(e, sheet),
                         [ab \in Range(matching_rules(e, sheet))
                                    \X Range(matching_rules(e, sheet)) |->
                             cmp(ab[1][1], ab[2][1])])
        f[i \in 0..Len(rules)] ==
            IF i = 0 THEN EmptyMap
            ELSE insert_declarations(f[i - 1], rules[i][2].declarations)
    IN  f[Len(rules)]

----------------------------------------------------------------------------
(* dom.rs: document nodes *)

Text(s) == [type |-> "Text", text |-> s]
Element(tag_name, attrs, children) ==
    [type |-> "Element", data |-> ElementData(tag_name, attrs, children)]

\* Node::children
children(node) == IF node.type = "Text" THEN <<>> ELSE node.data.children

----------------------------------------------------------------------------
(* style.rs: the style tree *)

StyledNode(node, css_values, kids) ==
    [node |-> node, css_specified_values |-> css_values, children |-> kids]

\* StyledNode::value
value(style_node, name) ==
    IF name \in DOMAIN style_node.css_specified_values
    THEN Some(style_node.css_specified_values[name])
    ELSE None

\* A variant of display whose fallback is Block.
display_default_block(style_node) ==
    LET v == value(style_node, "display")
    IN  IF v # None /\ v[1].type = "Keyword"
        THEN CASE v[1].s = "block" -> "Block"
               [] v[1].s = "none" -> "None"
               [] OTHER -> "Inline"
        ELSE "Block"

\* StyledNode::display
display(style_node) ==
    LET v == value(style_node, "display")
    IN  IF v # None /\ v[1].type = "Keyword"
        THEN CASE v[1].s = "block" -> "Block"
               [] v[1].s = "none" -> "None"
               [] OTHER -> "Inline"
        ELSE "Inline"

RECURSIVE style_tree(_, _, _)

\* A variant of style_tree that styles the children from last to first.
style_tree_reversed(root, ref, sheet) ==
    StyledNode(ref,
               IF root.type = "Element" THEN css_specified_values(root.data, sheet)
               ELSE EmptyMap,
               [i \in 1..Len(children(root)) |->
                   style_tree(children(root)[Len(children(root)) + 1 - i],
                              ref \o <<Len(children(root)) + 1 - i>>, sheet)])

\* style_tree; ref is the reference `root`, the path of the node in the
\* document.
style_tree(root, ref, sheet) ==
    StyledNode(ref,
               IF root.type = "Element" THEN css_specified_values(root.data, sheet)
               ELSE EmptyMap,
               [i \in 1..Len(children(root)) |->
                   style_tree(children(root)[i], ref \o <<i>>, sheet)])

----------------------------------------------------------------------------
(* layout.rs: the box tree *)

Rect(x, y, width, height) == [x |-> x, y |-> y, width |-> width, height |-> height]
EdgeSizes(left, right, top, bottom) ==
    [left |-> left, right |-> right, top |-> top, bottom |-> bottom]

\* Dimensions::default()
DefaultDimensions ==
    [content |-> Rect(0, 0, 0, 0), padding |-> EdgeSizes(0, 0, 0, 0),
     border |-> EdgeSizes(0, 0, 0, 0), margin |-> EdgeSizes(0, 0, 0, 0)]

BlockNode(ref) == [type |-> "BlockNode", style_node |-> ref]
InlineNode(ref) == [type |-> "InlineNode", style_node |-> ref]
AnonymousBlock == [type |-> "AnonymousBlock"]

LayoutBox(box_type) ==
    [dimensions |-> DefaultDimensions, box_type |-> box_type, children |-> <<>>]

\* The outcome of unreachable!(): the call does not return a box.
Panic == [panic |-> "unreachable"]
IsPanic(x) == "panic" \in DOMAIN x

\* A variant of LayoutBox::new that makes a block box of a node whose
\* display is None.
LayoutBox_new_total(style_node, ref) ==
    IF display(style_node) = "Inline" THEN LayoutBox(InlineNode(ref))
    ELSE LayoutBox(BlockNode(ref))

\* LayoutBox::new; ref is the reference `style_node`, the path of the
\* styled node in the style tree.
LayoutBox_new(style_node, ref) ==
    CASE display(style_node) = "Block" -> LayoutBox(BlockNode(ref))
      [] display(style_node) = "Inline" -> LayoutBox(InlineNode(ref))
      [] display(style_node) = "None" -> Panic

\* LayoutBox::new_with_anonymous_block
new_with_anonymous_block == LayoutBox(AnonymousBlock)

\* Vec::push on the children of a box.
push(box, child) == [box EXCEPT !.children = Append(@, child)]

\* A variant of get_inline_container that never re-uses the last child.
get_inline_container_fresh(box) ==
    IF box.box_type.type \in {"InlineNode", "AnonymousBlock"}
    THEN [box |-> box, at |-> 0]
    ELSE [box |-> push(box, new_with_anonymous_block),
          at |-> Len(box.children) + 1]

\* LayoutBox::get_inline_container.  The result is the box after the call
\* and the place of the returned container in it: 0 for the box itself,
\* k for its k-th child.
get_inline_container(box) ==
    IF box.box_type.type \in {"InlineNode", "AnonymousBlock"}
    THEN [box |-> box, at |-> 0]
    ELSE LET n == Len(box.children)
             b == IF n > 0 /\ box.children[n].box_type.type = "AnonymousBlock"
                  THEN box
                  ELSE push(box, new_with_anonymous_block)
         IN  [box |-> b, at |-> Len(b.children)]

\* The child is pushed on the box itself whatever the container is.
push_into_box(container, child) == push(container.box, child)

\* `.children.push(child)` on the container that get_inline_container gave.
push_into(container, child) ==
    IF container.at = 0 THEN push(container.box, child)
    ELSE [container.box EXCEPT !.children[container.at] = push(@, child)]

RECURSIVE build_layout_tree(_, _)
RECURSIVE build_children(_, _, _, _)

\* A variant of the loop body that skips a display-None child but still
\* visits the children of that child.
visit_child_hoisting(root, child, ref) ==
    CASE display(child) = "Block" ->
            LET b == build_layout_tree(child, ref)
            IN  IF IsPanic(b) THEN b ELSE push(root, b)
      [] display(child) = "Inline" ->
            LET b == build_layout_tree(child, ref)
            IN  IF IsPanic(b) THEN b ELSE push_into(get_inline_container(root), b)
      [] display(child) = "None" -> build_children(root, child, ref, 1)

\* The body of the loop of build_layout_tree for one child; ref is the
\* reference to the child.
visit_child(root, child, ref) ==
    CASE display(child) = "Block" ->
            LET b == build_layout_tree(child, ref)
            IN  IF IsPanic(b) THEN b ELSE push(root, b)
      [] display(child) = "Inline" ->
            LET b == build_layout_tree(child, ref)
            IN  IF IsPanic(b) THEN b ELSE push_into(get_inline_container(root), b)
      [] display(child) = "None" -> root

\* The loop of build_layout_tree from the i-th child on.
build_children(root, style_node, ref, i) ==
    IF IsPanic(root) \/ i > Len(style_node.children) THEN root
    ELSE build_children(visit_child(root, style_node.children[i], ref \o <<i>>),
                        style_node, ref, i + 1)

build_layout_tree(style_node, ref) ==
    build_children(LayoutBox_new(style_node, ref), style_node, ref, 1)

----------------------------------------------------------------------------
(* layout.rs: block layout *)

\* An f32 of the layout pass is the integer Scale * x.  The only division
\* of the pass halves a difference of whole pixels (layout.rs:280-281):
\* the parser reads whole pixels (css/parser.rs length), the viewport is
\* whole, widths are sums and differences of widths, and a halved margin
\* only enters the x coordinates, which are never divided.  All these
\* values are exact in f32 at the sizes used here.
Scale == 2

\* css.rs, Value::keyword_auto
keyword_auto == Keyword("auto")

\* css.rs, Value::length_zero
length_zero == Length(0)

\* css.rs, Value::to_px: the pixels of a Length, 0.0 for every other value.
to_px(v) == IF v.type = "Length" /\ v.unit = "Px" THEN v.px * Scale ELSE 0

\* The underflow is not divided.
whole(x) == x

\* layout.rs:280, the f32 division underflow / 2.0.
half(x) == x \div 2

\* The shorthand is looked up before the property itself.
lookup_shorthand_first(style_node, name, fallback_name, default) ==
    IF value(style_node, fallback_name) # None
    THEN value(style_node, fallback_name)[1]
    ELSE IF value(style_node, name) # None THEN value(style_node, name)[1]
         ELSE default

\* style.rs, StyledNode::lookup
lookup(style_node, name, fallback_name, default) ==
    IF value(style_node, name) # None THEN value(style_node, name)[1]
    ELSE IF value(style_node, fallback_name) # None
         THEN value(style_node, fallback_name)[1]
         ELSE default

\* The rectangle grows to the left and to the top only.
expanded_by_left_top(rect, edge) ==
    Rect(rect.x - edge.left, rect.y - edge.top,
         rect.width + edge.left, rect.height + edge.top)

\* layout.rs, Rect::expanded_by
expanded_by(rect, edge) ==
    Rect(rect.x - edge.left, rect.y - edge.top,
         rect.width + edge.left + edge.right,
         rect.height + edge.top + edge.bottom)

\* layout.rs, Dimensions::padding_box, border_box, margin_box
padding_box(d) == expanded_by(d.content, d.padding)
border_box(d) == expanded_by(padding_box(d), d.border)
margin_box(d) == expanded_by(border_box(d), d.margin)

\* The styled node a reference of the box tree points at.
RECURSIVE deref(_, _)
deref(tree, ref) ==
    IF ref = <<>> THEN tree
    ELSE deref(tree.children[Head(ref)], Tail(ref))

\* layout.rs, LayoutBox::get_style_node; tree is the style tree the box
\* tree borrows from.
get_style_node(box, tree) ==
    IF box.box_type.type \in {"BlockNode", "InlineNode"}
    THEN deref(tree, box.box_type.style_node)
    ELSE Panic

\* A box without `width` has the fixed width 0.
width_or_zero(style) ==
    IF value(style, "width") # None THEN value(style, "width")[1]
    ELSE length_zero

\* layout.rs:214, style.value("width").unwrap_or(auto)
width_or_auto(style) ==
    IF value(style, "width") # None THEN value(style, "width")[1]
    ELSE keyword_auto

\* An auto margin is never zeroed.
zero_auto_margin_never(margin, width, total, containing) ==
    margin

\* layout.rs:242-250: an auto margin of a box with a fixed width whose
\* total exceeds the containing width becomes zero.
zero_auto_margin(margin, width, total, containing) ==
    IF width # keyword_auto /\ total > containing.content.width
       /\ margin = keyword_auto
    THEN length_zero
    ELSE margin

\* The right margin keeps its value and the underflow is dropped.
row_none_auto_keeps_right(d, width, margin_left, margin_right, underflow) ==
    [d EXCEPT !.content.width = to_px(width),
              !.margin.left = to_px(margin_left),
              !.margin.right = to_px(margin_right)]

\* layout.rs:263-267, the row (false, false, false).
row_none_auto(d, width, margin_left, margin_right, underflow) ==
    [d EXCEPT !.content.width = to_px(width),
              !.margin.left = to_px(margin_left),
              !.margin.right = to_px(margin_right) + underflow]

\* The content width takes the underflow whatever its sign.
row_width_auto_unclamped(d, margin_left, margin_right, underflow) ==
    [d EXCEPT !.content.width = underflow,
              !.margin.left = to_px(margin_left),
              !.margin.right = to_px(margin_right)]

\* layout.rs:283-299, the row (true, _, _).
row_width_auto(d, margin_left, margin_right, underflow) ==
    LET ml == IF margin_left = keyword_auto THEN length_zero ELSE margin_left
        mr == IF margin_right = keyword_auto THEN length_zero ELSE margin_right
    IN  IF underflow >= 0
        THEN [d EXCEPT !.content.width = underflow,
                       !.margin.left = to_px(ml),
                       !.margin.right = to_px(mr)]
        ELSE [d EXCEPT !.content.width = 0,
                       !.margin.left = to_px(ml),
                       !.margin.right = to_px(mr) + underflow]

\* The row (false, false, false) is taken whatever is auto.
resolve_width_first_row(d, width, margin_left, margin_right, underflow) ==
    row_none_auto(d, width, margin_left, margin_right, underflow)

\* layout.rs:262-300, the match on (width == auto, margin_left == auto,
\* margin_right == auto); d already holds the paddings and borders.
resolve_width(d, width, margin_left, margin_right, underflow) ==
    LET auto == keyword_auto
    IN  IF width = auto
        THEN row_width_auto(d, margin_left, margin_right, underflow)
        ELSE IF margin_left # auto /\ margin_right # auto
        THEN row_none_auto(d, width, margin_left, margin_right, underflow)
        ELSE IF margin_left # auto
        THEN [d EXCEPT !.content.width = to_px(width),
                       !.margin.left = to_px(margin_left),
                       !.margin.right = underflow]
        ELSE IF margin_right # auto
        THEN [d EXCEPT !.content.width = to_px(width),
                       !.margin.left = underflow,
                       !.margin.right = to_px(margin_right)]
        ELSE [d EXCEPT !.content.width = to_px(width),
                       !.margin.left = half(underflow),
                       !.margin.right = half(underflow)]

\* layout.rs, LayoutBox::calculate_block_width
calculate_block_width(box, tree, containing) ==
    LET style == get_style_node(box, tree)
        zero == length_zero
        width == width_or_auto(style)
        margin_left0 == lookup(style, "margin-left", "margin", zero)
        margin_right0 == lookup(style, "margin-right", "margin", zero)
        border_left == lookup(style, "border-left-width", "border-width", zero)
        border_right == lookup(style, "border-right-width", "border-width", zero)
        padding_left == lookup(style, "padding-left", "padding", zero)
        padding_right == lookup(style, "padding-right", "padding", zero)
        total == to_px(margin_left0) + to_px(margin_right0)
                 + to_px(border_left) + to_px(border_right)
                 + to_px(padding_left) + to_px(padding_right) + to_px(width)
        margin_left == zero_auto_margin(margin_left0, width, total, containing)
        margin_right == zero_auto_margin(margin_right0, width, total, containing)
        underflow == containing.content.width - total
        d == [box.dimensions EXCEPT !.padding.left = to_px(padding_left),
                                    !.padding.right = to_px(padding_right),
                                    !.border.left = to_px(border_left),
                                    !.border.right = to_px(border_right)]
    IN  [box EXCEPT !.dimensions =
             resolve_width(d, width, margin_left, margin_right, underflow)]

\* The height of the containing block is left out.
content_y_without_height(containing, d) ==
    containing.content.y + d.margin.top + d.border.top + d.padding.top

\* layout.rs:344-348, the content y of a box whose vertical edges are set.
content_y(containing, d) ==
    containing.content.y + containing.content.height
    + d.margin.top + d.border.top + d.padding.top

\* layout.rs, LayoutBox::calculate_block_position
calculate_block_position(box, tree, containing) ==
    LET style == get_style_node(box, tree)
        zero == length_zero
        d == [box.dimensions EXCEPT
                !.margin.top = to_px(lookup(style, "margin-top", "margin", zero)),
                !.margin.bottom =
                    to_px(lookup(style, "margin-bottom", "margin", zero)),
                !.border.top =
                    to_px(lookup(style, "border-top-width", "border-width", zero)),
                !.border.bottom =
                    to_px(lookup(style, "border-bottom-width", "border-width", zero)),
                !.padding.top =
                    to_px(lookup(style, "padding-top-width", "padding", zero)),
                !.padding.bottom =
                    to_px(lookup(style, "padding-bottom-width", "padding", zero))]
    IN  [box EXCEPT !.dimensions =
             [d EXCEPT !.content.x = containing.content.x + d.margin.left
                                     + d.border.left + d.padding.left,
                       !.content.y = content_y(containing, d)]]

\* The height a child adds to its parent is that of its border box.
child_height_border_box(box, child) ==
    [box EXCEPT !.dimensions.content.height = @ + border_box(child.dimensions).height]

\* layout.rs:356, the line of layout_block_children that follows the
\* layout of a child: the parent grows by the child's margin-box height.
add_child_height(box, child) ==
    [box EXCEPT !.dimensions.content.height = @ + margin_box(child.dimensions).height]

\* The height of the children is kept whatever the style says.
calculate_block_height_ignored(box, tree) == box

\* layout.rs, LayoutBox::calculate_block_height
calculate_block_height(box, tree) ==
    LET height == value(get_style_node(box, tree), "height")
    IN  IF height # None /\ height[1].type = "Length" /\ height[1].unit = "Px"
        THEN [box EXCEPT !.dimensions.content.height = height[1].px * Scale]
        ELSE box

\* The box tree with the box at path replaced by box.
RECURSIVE replace_at(_, _, _)
replace_at(tree, path, box) ==
    IF path = <<>> THEN box
    ELSE [tree EXCEPT !.children[Head(path)] =
              replace_at(@, Tail(path), box)]

\* The fields of Dimensions that calculate_block_width assigns
\* (layout.rs:257-297); each arm of its match assigns the same three.
width_fields ==
    {"padding.left", "padding.right", "border.left", "border.right",
     "content.width", "margin.left", "margin.right"}

\* The fields that calculate_block_position assigns (layout.rs:314-348).
position_fields ==
    {"margin.top", "margin.bottom", "border.top", "border.bottom",
     "padding.top", "padding.bottom", "content.x", "content.y"}

\* calculate_block_height is taken to assign no field.
height_fields_none(box, tree) == {}

\* The fields that calculate_block_height assigns (layout.rs:362-364).
height_fields(box, tree) ==
    LET height == value(get_style_node(box, tree), "height")
    IN  IF height # None /\ height[1].type = "Length" /\ height[1].unit = "Px"
        THEN {"content.height"}
        ELSE {}

\* One entry of the record of a layout pass: a call on the box at path
\* box, in the order of the debug! lines of layout.rs:175-357, with the
\* fields of that box's Dimensions the call assigns.
Event(box, call, fields) == [box |-> box, call |-> call, fields |-> fields]

\* One activation of layout_block (layout.rs:187-202): the box it lays
\* out, as a path into the box tree, the call it is about to make and,
\* inside layout_block_children, the index of the next child.
Frame(box, phase, i) == [box |-> box, phase |-> phase, i |-> i]

\* An inline box reaches layout_block as well.
is_block_or_inline(box) == box.box_type.type \in {"BlockNode", "InlineNode"}

\* layout.rs:176-183, the match of LayoutBox::layout on the box type:
\* does the call reach layout_block?
is_block(box) == box.box_type.type = "BlockNode"

----------------------------------------------------------------------------
(* Inputs of the selector-matching specification *)

Chars == {"a", "b", " "}
ClassStrings == SeqsOf(Chars, 0, MaxClassLen)

MatchAttrs ==
    {EmptyAttrs} \cup {[id |-> i] : i \in {"foo", "bar"}}
    \cup {[class |-> c] : c \in ClassStrings}
    \cup {[id |-> i, class |-> c] : i \in {"foo"}, c \in ClassStrings}

MatchElements == {ElementData(t, a, <<>>) : t \in {"div", "p"}, a \in MatchAttrs}

\* Class names a selector may carry; the empty name is a segment of a
\* split such as "a " and the last name, which holds a space, is never
\* one (style.rs:261 uses such a name).
MatchClassNames == {<<"a">>, <<"b">>, <<>>, <<"a", " ", "b">>}

MatchSelectors ==
    {SimpleSelector(t, i, c) :
        t \in {None, Some("div")}, i \in {None, Some("foo")},
        c \in SUBSET MatchClassNames}

InitMatch ==
    /\ pc = "match"
    /\ elem \in MatchElements
    /\ selector \in MatchSelectors
    /\ result = Unused
    /\ selectors = Unused /\ rule = Unused /\ matched = Unused
    /\ stylesheet = Unused /\ values = Unused
    /\ document = Unused /\ styled = Unused /\ layout_tree = Unused
    /\ containing_block = Unused /\ stack = Unused
    /\ trace = Unused /\ previous = Unused

MatchesSimpleSelector ==
    /\ pc = "match"
    /\ result' = matches_simple_selector(elem, selector)
    /\ pc' = "matched"
    /\ UNCHANGED <<elem, selector, selectors, rule, matched, stylesheet,
                   values, document, styled, layout_tree>>
    /\ UNCHANGED <<containing_block, stack, trace, previous>>

NextMatch == MatchesSimpleSelector

SpecMatch == InitMatch /\ [][NextMatch]_vars

----------------------------------------------------------------------------
(* Specification SpecSelectors: one rule is parsed and matched against an  *)
(* element.                                                                *)

Black == ColorValue(0, 0, 0)
White == ColorValue(1, 2, 3)

ClassA == <<"a">>
ClassB == <<"b">>

\* The selectors of css.rs sorted_selectors_test, and a second
\* single-class selector and a second tag selector so that distinct
\* selectors of equal specificity occur.
SelectorPool ==
    { SimpleSelector(None, Some("foo"), {}),
      SimpleSelector(None, None, {ClassA, ClassB}),
      SimpleSelector(Some("div"), None, {ClassB}),
      SimpleSelector(None, None, {ClassA}),
      SimpleSelector(None, None, {ClassB}),
      SimpleSelector(Some("div"), None, {}),
      SimpleSelector(Some("p"), None, {}),
      SimpleSelector(None, None, {}) }

SelectorElements ==
    { ElementData("div", [id |-> "foo", class |-> <<"a", " ", "b">>], <<>>),
      ElementData("div", [class |-> <<"b">>], <<>>),
      ElementData("p", [class |-> <<"a">>], <<>>),
      ElementData("div", EmptyAttrs, <<>>) }

InitSelectors ==
    /\ pc = "parse"
    /\ elem \in SelectorElements
    /\ selectors \in SeqsOf(SelectorPool, 0, MaxSelectors)
    /\ rule = Unused /\ matched = Unused
    /\ selector = Unused /\ result = Unused
    /\ stylesheet = Unused /\ values = Unused
    /\ document = Unused /\ styled = Unused /\ layout_tree = Unused
    /\ containing_block = Unused /\ stack = Unused
    /\ trace = Unused /\ previous = Unused

\* css/parser.rs rule(): the parsed selectors become the rule's sorted list.
ParseRule ==
    /\ pc = "parse"
    /\ \E declarations \in {<<>>, <<Declaration("color", Black)>>} :
          rule' = parser_rule(selectors, declarations)
    /\ pc' = "rule"
    /\ UNCHANGED <<elem, selector, result, selectors, matched, stylesheet,
                   values, document, styled, layout_tree>>
    /\ UNCHANGED <<containing_block, stack, trace, previous>>

MatchRule ==
    /\ pc = "rule"
    /\ matched' = match_rule(elem, rule)
    /\ pc' = "matched"
    /\ UNCHANGED <<elem, selector, result, selectors, rule, stylesheet,
                   values, document, styled, layout_tree>>
    /\ UNCHANGED <<containing_block, stack, trace, previous>>

NextSelectors == ParseRule \/ MatchRule

SpecSelectors == InitSelectors /\ [][NextSelectors]_vars

----------------------------------------------------------------------------
(* Specification SpecCascade: a stylesheet is parsed rule by rule and the  *)
(* cascade is resolved for one element.                                    *)

CascadeElements ==
    { ElementData("div", [id |-> "foo"], <<>>),
      ElementData("div", EmptyAttrs, <<>>),
      ElementData("p", EmptyAttrs, <<>>) }

\* Selector lists as written in a stylesheet, before sorting.
CascadeSelectors ==
    { <<SimpleSelector(None, None, {})>>,
      <<SimpleSelector(Some("div"), None, {})>>,
      <<SimpleSelector(None, Some("foo"), {})>>,
      <<SimpleSelector(Some("div"), None, {}), SimpleSelector(None, Some("foo"), {})>> }

CascadeDeclarations ==
    { <<Declaration("color", Black)>>,
      <<Declaration("color", White)>>,
      <<Declaration("display", Keyword("block"))>>,
      <<Declaration("color", Black), Declaration("color", White)>> }

InitCascade ==
    /\ pc = "parse"
    /\ elem \in CascadeElements
    /\ stylesheet = Stylesheet(<<>>)
    /\ values = Unused /\ matched = Unused
    /\ selector = Unused /\ result = Unused
    /\ selectors = Unused /\ rule = Unused
    /\ document = Unused /\ styled = Unused /\ layout_tree = Unused
    /\ containing_block = Unused /\ stack = Unused
    /\ trace = Unused /\ previous = Unused

\* css/parser.rs stylesheet(): sep_by(rule(), spaces()) parses one more rule.
ParseStylesheetRule ==
    /\ pc = "parse"
    /\ Len(stylesheet.rules) < MaxRules
    /\ \E sels \in CascadeSelectors, declarations \in CascadeDeclarations :
          stylesheet' = Stylesheet(Append(stylesheet.rules,
                                          parser_rule(sels, declarations)))
    /\ UNCHANGED <<pc, elem, selector, result, selectors, rule, matched,
                   values, document, styled, layout_tree>>
    /\ UNCHANGED <<containing_block, stack, trace, previous>>

\* css_specified_values; `matched` keeps the local `rules` as returned by
\* matching_rules, before it is sorted.
CssSpecifiedValues ==
    /\ pc = "parse"
    /\ matched' = matching_rules(elem, stylesheet)
    /\ values' = css_specified_values(elem, stylesheet)
    /\ pc' = "styled"
    /\ UNCHANGED <<elem, selector, result, selectors, rule, stylesheet,
                   document, styled, layout_tree>>
    /\ UNCHANGED <<containing_block, stack, trace, previous>>

NextCascade == ParseStylesheetRule \/ CssSpecifiedValues

SpecCascade == InitCascade /\ [][NextCascade]_vars

----------------------------------------------------------------------------
(* Specification Spec: the pipeline of dump_layout up to the box tree.  A  *)
(* parsed document and a parsed stylesheet are styled, and the style tree  *)
(* is turned into a box tree.                                              *)

RECURSIVE Size(_)
Size(node) ==
    LET kids == children(node)
        f[i \in 0..Len(kids)] == IF i = 0 THEN 0 ELSE f[i - 1] + Size(kids[i])
    IN  1 + f[Len(kids)]

RECURSIVE Trees(_, _)
RECURSIVE Forests(_, _, _)

\* The sequences of at most k nodes, each at most d levels deep below its
\* root, of at most n nodes in all.
Forests(d, n, k) ==
    {<<>>} \cup
    (IF k = 0 \/ n = 0 THEN {}
     ELSE UNION { { <<t>> \o f : f \in Forests(d, n - Size(t), k - 1) } :
                    t \in Trees(d, n) })

\* The nodes at most d levels deep below their root, of at most n nodes.
Trees(d, n) ==
    IF n = 0 THEN {}
    ELSE {Text("hello")} \cup
         { Element(t, EmptyAttrs, kids) :
             t \in {"div", "p"},
             kids \in (IF d = 0 THEN {<<>>} ELSE Forests(d - 1, n - 1, MaxChildren)) }

Documents == Trees(MaxDepth, MaxNodes)

DisplayValues == {Keyword("block"), Keyword("none"), Keyword("inline"), Length(5)}

\* The stylesheet `div { display: dv } p { display: pv }`, either rule
\* left out when its value is None.
DisplaySheet(dv, pv) ==
    LET r(tag, v) ==
            IF v = None THEN <<>>
            ELSE <<parser_rule(<<SimpleSelector(Some(tag), None, {})>>,
                               <<Declaration("display", v[1])>>)>>
    IN  Stylesheet(r("div", dv) \o r("p", pv))

DisplaySheets ==
    {DisplaySheet(dv, pv) :
        dv \in {None} \cup {Some(v) : v \in DisplayValues},
        pv \in {None} \cup {Some(v) : v \in DisplayValues}}

Init ==
    /\ pc = "parsed"
    /\ document \in Documents
    /\ stylesheet \in DisplaySheets
    /\ styled = Unused /\ layout_tree = Unused
    /\ elem = Unused /\ selector = Unused /\ result = Unused
    /\ selectors = Unused /\ rule = Unused /\ matched = Unused
    /\ values = Unused
    /\ containing_block = Unused /\ stack = Unused
    /\ trace = Unused /\ previous = Unused

\* layout.rs:412, the call of style_tree.
StyleTree ==
    /\ pc = "parsed"
    /\ styled' = style_tree(document, <<>>, stylesheet)
    /\ pc' = "styled"
    /\ UNCHANGED <<elem, selector, result, selectors, rule, matched,
                   stylesheet, values, document, layout_tree>>
    /\ UNCHANGED <<containing_block, stack, trace, previous>>

\* layout.rs:413, the call of build_layout_tree, which returns the box tree.
BuildLayoutTree ==
    /\ pc = "styled"
    /\ ~IsPanic(build_layout_tree(styled, <<>>))
    /\ layout_tree' = build_layout_tree(styled, <<>>)
    /\ pc' = "built"
    /\ UNCHANGED <<elem, selector, result, selectors, rule, matched,
                   stylesheet, values, document, styled>>
    /\ UNCHANGED <<containing_block, stack, trace, previous>>

\* layout.rs:413, the call of build_layout_tree, which panics.
BuildLayoutTreePanics ==
    /\ pc = "styled"
    /\ IsPanic(build_layout_tree(styled, <<>>))
    /\ pc' = "panic"
    /\ UNCHANGED <<elem, selector, result, selectors, rule, matched,
                   stylesheet, values, document, styled, layout_tree>>
    /\ UNCHANGED <<containing_block, stack, trace, previous>>

Next == StyleTree \/ BuildLayoutTree \/ BuildLayoutTreePanics

Spec == Init /\ [][Next]_vars

----------------------------------------------------------------------------
(* Specification of the layout pass: dump_layout (layout.rs:403-425) on a
   small document and stylesheet *)

\* layout.rs:415-422, the viewport of dump_layout.
Viewport == [DefaultDimensions EXCEPT !.content = Rect(0, 0, 800 * Scale, 0)]

\* The running activation of layout_block and the box it lays out.
TopFrame == stack[Len(stack)]
TopBox == deref(layout_tree, TopFrame.box)

\* The containing block of the running activation: the viewport for the
\* box dump_layout lays out, the dimensions of the parent box (the d of
\* layout.rs:353-355) for a child.
TopContaining ==
    IF Len(stack) = 1 THEN containing_block
    ELSE deref(layout_tree, stack[Len(stack) - 1].box).dimensions

\* layout.rs:423 and 355, a call of LayoutBox::layout on the box at path:
\* layout_block starts for a block, every other box is unimplemented!().
layout(path) ==
    IF is_block(deref(layout_tree, path))
    THEN /\ stack' = Append(stack, Frame(path, "width", 0))
         /\ pc' = "layout"
    ELSE /\ pc' = "unimplemented"
         /\ UNCHANGED stack

\* The root box is laid out as a block whatever its type.
LayoutAnyBox ==
    /\ pc = "built"
    /\ stack' = Append(stack, Frame(<<>>, "width", 0))
    /\ pc' = "layout"
    /\ UNCHANGED <<elem, selector, result, selectors, rule, matched,
                   stylesheet, values, document, styled, layout_tree,
                   containing_block, previous>>
    /\ trace' = Append(trace, Event(<<>>, "layout", {}))

\* layout.rs:423, dump_layout lays out the root box.
Layout ==
    /\ pc = "built"
    /\ layout(<<>>)
    /\ UNCHANGED <<elem, selector, result, selectors, rule, matched,
                   stylesheet, values, document, styled, layout_tree,
                   containing_block, previous>>
    /\ trace' = Append(trace, Event(<<>>, "layout", {}))

\* layout.rs:191
CalculateBlockWidth ==
    /\ pc = "layout" /\ TopFrame.phase = "width"
    /\ layout_tree' = replace_at(layout_tree, TopFrame.box,
                          calculate_block_width(TopBox, styled, TopContaining))
    /\ stack' = [stack EXCEPT ![Len(stack)].phase = "position"]
    /\ UNCHANGED <<pc, elem, selector, result, selectors, rule, matched,
                   stylesheet, values, document, styled, containing_block, previous>>
    /\ trace' = Append(trace, Event(TopFrame.box, "calculate_block_width",
                                   width_fields))

\* The content height is reset to 0 when the box is placed.
CalculateBlockPositionResetting ==
    /\ pc = "layout" /\ TopFrame.phase = "position"
    /\ layout_tree' =
           replace_at(layout_tree, TopFrame.box,
               [calculate_block_position(TopBox, styled, TopContaining)
                   EXCEPT !.dimensions.content.height = 0])
    /\ stack' = [stack EXCEPT ![Len(stack)].phase = "children",
                              ![Len(stack)].i = 1]
    /\ UNCHANGED <<pc, elem, selector, result, selectors, rule, matched,
                   stylesheet, values, document, styled, containing_block,
                   previous>>
    /\ trace' = Append(trace, Event(TopFrame.box, "calculate_block_position",
                                   position_fields))

\* layout.rs:194
CalculateBlockPosition ==
    /\ pc = "layout" /\ TopFrame.phase = "position"
    /\ layout_tree' = replace_at(layout_tree, TopFrame.box,
                          calculate_block_position(TopBox, styled, TopContaining))
    /\ stack' = [stack EXCEPT ![Len(stack)].phase = "children",
                              ![Len(stack)].i = 1]
    /\ UNCHANGED <<pc, elem, selector, result, selectors, rule, matched,
                   stylesheet, values, document, styled, containing_block, previous>>
    /\ trace' = Append(trace, Event(TopFrame.box, "calculate_block_position",
                                   position_fields))

\* layout.rs:354-355, layout_block_children lays out its next child.
LayoutChild ==
    /\ pc = "layout" /\ TopFrame.phase = "children"
    /\ TopFrame.i <= Len(TopBox.children)
    /\ layout(TopFrame.box \o <<TopFrame.i>>)
    /\ UNCHANGED <<elem, selector, result, selectors, rule, matched,
                   stylesheet, values, document, styled, layout_tree,
                   containing_block, previous>>
    /\ trace' = Append(trace, Event(TopFrame.box \o <<TopFrame.i>>, "layout", {}))

\* The height is calculated while children are still to be laid out.
CalculateBlockHeightEarly ==
    /\ pc = "layout" /\ TopFrame.phase = "children"
    /\ layout_tree' = replace_at(layout_tree, TopFrame.box,
                          calculate_block_height(TopBox, styled))
    /\ stack' = [stack EXCEPT ![Len(stack)].phase = "returned"]
    /\ UNCHANGED <<pc, elem, selector, result, selectors, rule, matched,
                   stylesheet, values, document, styled, containing_block,
                   previous>>
    /\ trace' = Append(trace, Event(TopFrame.box, "calculate_block_height",
                                   height_fields(TopBox, styled)))

\* layout.rs:201, after the loop of layout_block_children has ended;
\* layout_block returns.
CalculateBlockHeight ==
    /\ pc = "layout" /\ TopFrame.phase = "children"
    /\ TopFrame.i > Len(TopBox.children)
    /\ layout_tree' = replace_at(layout_tree, TopFrame.box,
                          calculate_block_height(TopBox, styled))
    /\ stack' = [stack EXCEPT ![Len(stack)].phase = "returned"]
    /\ UNCHANGED <<pc, elem, selector, result, selectors, rule, matched,
                   stylesheet, values, document, styled, containing_block, previous>>
    /\ trace' = Append(trace, Event(TopFrame.box, "calculate_block_height",
                                   height_fields(TopBox, styled)))

\* layout.rs:356, the layout of a child has returned.
AddChildHeight ==
    /\ pc = "layout" /\ TopFrame.phase = "returned" /\ Len(stack) > 1
    /\ LET parent == stack[Len(stack) - 1]
       IN  /\ layout_tree' =
                  replace_at(layout_tree, parent.box,
                             add_child_height(deref(layout_tree, parent.box),
                                              TopBox))
           /\ stack' = [SubSeq(stack, 1, Len(stack) - 1)
                           EXCEPT ![Len(stack) - 1].i = @ + 1]
    /\ UNCHANGED <<pc, elem, selector, result, selectors, rule, matched,
                   stylesheet, values, document, styled, containing_block, previous>>
    /\ trace' = Append(trace, Event(stack[Len(stack) - 1].box,
                                   "layout_block_children", {"content.height"}))

\* layout.rs:423-424, the layout of the root box has returned.
LayoutReturns ==
    /\ pc = "layout" /\ TopFrame.phase = "returned" /\ Len(stack) = 1
    /\ pc' = "done"
    /\ stack' = <<>>
    /\ UNCHANGED <<elem, selector, result, selectors, rule, matched,
                   stylesheet, values, document, styled, layout_tree,
                   containing_block, previous>>
    /\ trace' = trace

\* Documents of the layout specification.
LayoutDocuments == Trees(MaxDepth, MaxLayoutNodes)

Universal == SimpleSelector(None, None, {})
Tag(t) == SimpleSelector(Some(t), None, {})
Block == Declaration("display", Keyword("block"))

\* Stylesheets of the layout specification; the first two are those of
\* layout_test and layout_dump_test (layout.rs:551-606).
LayoutSheets ==
    { Stylesheet(<<parser_rule(<<Universal>>, <<Block>>),
                   parser_rule(<<Tag("div")>>,
                               <<Declaration("margin", Length(10))>>)>>),
      Stylesheet(<<parser_rule(<<Universal>>,
                               <<Block, Declaration("padding", Length(12))>>)>>),
      Stylesheet(<<parser_rule(<<Tag("div")>>, <<Block>>)>>),
      Stylesheet(<<>>),
      Stylesheet(<<parser_rule(<<Universal>>, <<Block>>),
                   parser_rule(<<Tag("div")>>,
                               <<Declaration("height", Length(5))>>),
                   parser_rule(<<Tag("p")>>,
                               <<Declaration("margin", Length(10)),
                                 Declaration("border-width", Length(1))>>)>>),
      Stylesheet(<<parser_rule(<<Universal>>, <<Block>>),
                   parser_rule(<<Tag("div")>>,
                               <<Declaration("width", Length(101)),
                                 Declaration("margin-left", keyword_auto),
                                 Declaration("margin-right", keyword_auto)>>),
                   parser_rule(<<Tag("p")>>,
                               <<Declaration("height", keyword_auto),
                                 Declaration("margin-top", Length(3)),
                                 Declaration("padding", Length(2))>>)>>),
      Stylesheet(<<parser_rule(<<Tag("div")>>,
                               <<Block, Declaration("height", Length(7))>>),
                   parser_rule(<<Tag("p")>>,
                               <<Declaration("display", Keyword("none"))>>)>>),
      Stylesheet(<<parser_rule(<<Universal>>, <<Block>>),
                   parser_rule(<<Tag("div")>>,
                               <<Declaration("padding-top", Length(5))>>),
                   parser_rule(<<Tag("p")>>,
                               <<Declaration("padding-bottom", Length(3)),
                                 Declaration("margin-bottom", Length(4))>>)>>),
      Stylesheet(<<parser_rule(<<Universal>>, <<Block>>),
                   parser_rule(<<Tag("div")>>,
                               <<Declaration("padding", Length(2)),
                                 Declaration("padding-top", Length(5)),
                                 Declaration("border-width", Length(1)),
                                 Declaration("border-top-width", Length(6)),
                                 Declaration("margin", Length(3)),
                                 Declaration("margin-bottom", Length(4))>>)>>) }

InitLayout ==
    /\ pc = "parsed"
    /\ document \in LayoutDocuments
    /\ stylesheet \in LayoutSheets
    /\ containing_block = Viewport
    /\ stack = <<>>
    /\ trace = <<>> /\ previous = None
    /\ styled = Unused /\ layout_tree = Unused
    /\ elem = Unused /\ selector = Unused /\ result = Unused
    /\ selectors = Unused /\ rule = Unused /\ matched = Unused
    /\ values = Unused

NextLayout ==
    \/ StyleTree \/ BuildLayoutTree \/ BuildLayoutTreePanics
    \/ Layout \/ CalculateBlockWidth \/ CalculateBlockPosition
    \/ LayoutChild \/ CalculateBlockHeight \/ AddChildHeight
    \/ LayoutReturns

SpecLayout == InitLayout /\ [][NextLayout]_vars

----------------------------------------------------------------------------
(* Specification of a caller that lays out twice: after the pass of
   dump_layout it either calls layout again on the box tree it has
   (layout.rs:423) or builds the trees again (layout.rs:412-413) and lays
   the new box tree out *)

\* layout.rs:423, a second call of layout on the root of the tree that has
\* been laid out, with the same viewport; the first result is kept in
\* previous.
LayoutAgain ==
    /\ pc = "done" /\ previous = None
    /\ previous' = Some([tree |-> layout_tree, rebuilt |-> FALSE])
    /\ layout(<<>>)
    /\ trace' = <<Event(<<>>, "layout", {})>>
    /\ UNCHANGED <<elem, selector, result, selectors, rule, matched,
                   stylesheet, values, document, styled, layout_tree,
                   containing_block>>

\* layout.rs:412-413, the style tree and the box tree are built again from
\* the same document and stylesheet; Layout then lays the new tree out.
Rebuild ==
    /\ pc = "done" /\ previous = None
    /\ previous' = Some([tree |-> layout_tree, rebuilt |-> TRUE])
    /\ styled' = style_tree(document, <<>>, stylesheet)
    /\ layout_tree' = build_layout_tree(styled', <<>>)
    /\ pc' = "built"
    /\ trace' = <<>>
    /\ UNCHANGED <<elem, selector, result, selectors, rule, matched,
                   stylesheet, values, document, containing_block, stack>>

NextRelayout == NextLayout \/ LayoutAgain \/ Rebuild

SpecRelayout == InitLayout /\ [][NextRelayout]_vars

----------------------------------------------------------------------------
(* Specification of calculate_block_width on one block box, as in
   calculate_block_width_test (layout.rs:462-534) *)

\* Lengths of the test, in pixels.
WidthPixels == {0, 1, 2, 10, 11, 20}
WidthValues == {keyword_auto} \cup {Length(n) : n \in WidthPixels}

\* A property that is absent or carries one of the values.
Choice(S) == {None} \cup {Some(v) : v \in S}

\* The specified values with the given choices, absent ones left out.
Properties(choices) ==
    [n \in {k \in DOMAIN choices : choices[k] # None} |-> choices[n][1]]

\* Content widths of the containing block, in pixels.
ContainingWidths == {10, 25}

InitWidth ==
    /\ pc = "layout"
    /\ \E w \in Choice(WidthValues \cup {Keyword("inherit")}),
          ml \in Choice(WidthValues), mr \in Choice(WidthValues),
          m \in Choice({Length(5)}),
          pl \in Choice({Length(3)}), p \in Choice({Length(4)}),
          br \in Choice({Length(1)}), b \in Choice({Length(2)}) :
          styled = StyledNode(<<>>,
                       Properties(("display" :> Some(Keyword("block")))
                                  @@ ("width" :> w) @@ ("margin-left" :> ml)
                                  @@ ("margin-right" :> mr) @@ ("margin" :> m)
                                  @@ ("padding-left" :> pl) @@ ("padding" :> p)
                                  @@ ("border-right-width" :> br)
                                  @@ ("border-width" :> b)),
                       <<>>)
    /\ layout_tree = LayoutBox_new(styled, <<>>)
    /\ \E cw \in ContainingWidths :
          containing_block =
              [DefaultDimensions EXCEPT !.content.width = cw * Scale]
    /\ stack = <<Frame(<<>>, "width", 0)>>
    /\ trace = <<>> /\ previous = None
    /\ elem = Unused /\ selector = Unused /\ result = Unused
    /\ selectors = Unused /\ rule = Unused /\ matched = Unused
    /\ values = Unused /\ stylesheet = Unused /\ document = Unused

NextWidth == CalculateBlockWidth

SpecWidth == InitWidth /\ [][NextWidth]_vars

----------------------------------------------------------------------------
(* Definitions used to state the properties *)

\* The specificity triple as the specification words it.
SpecTriple(sel) ==
    << IF sel.id = None THEN 0 ELSE 1,
       Cardinality(sel.classes),
       IF sel.tag_name = None THEN 0 ELSE 1 >>

\* a is lexicographically greater than b.
Higher(a, b) ==
    \E k \in 1..3 : a[k] > b[k] /\ \A j \in 1..(k - 1) : a[j] = b[j]

\* The maximal space-free stretches of s that are delimited by spaces or by
\* the ends of s (empty stretches included).
Segments(s) ==
    { SubSeq(s, i, j) : <<i, j>> \in
        { ij \in (1..(Len(s) + 1)) \X (0..Len(s)) :
            /\ ij[2] >= ij[1] - 1
            /\ (ij[1] = 1 \/ s[ij[1] - 1] = " ")
            /\ (ij[2] = Len(s) \/ s[ij[2] + 1] = " ")
            /\ \A k \in ij[1]..ij[2] : s[k] # " " } }

ClassSet(e) ==
    IF "class" \in DOMAIN e.attrs THEN Segments(e.attrs["class"]) ELSE {}

\* The selectors of rule r that match e.
MatchingSelectors(e, r) ==
    {sel \in Range(r.selectors.selectors) : matches(e, sel)}

RuleMatches(e, r) == MatchingSelectors(e, r) # {}

\* The greatest specificity among the selectors of r that match e.
WinningSpecificity(e, r) ==
    CHOOSE w \in {SpecTriple(sel) : sel \in MatchingSelectors(e, r)} :
        \A sel \in MatchingSelectors(e, r) : ~Higher(SpecTriple(sel), w)

Declares(r, name) == \E i \in 1..Len(r.declarations) : r.declarations[i].name = name

DeclaredValues(r, name) ==
    {r.declarations[i].value :
        i \in {k \in 1..Len(r.declarations) : r.declarations[k].name = name}}

\* The indices of the rules of the stylesheet that match elem and declare name.
Declaring(name) ==
    {i \in 1..Len(stylesheet.rules) :
        RuleMatches(elem, stylesheet.rules[i]) /\ Declares(stylesheet.rules[i], name)}

\* Those of Declaring(name) whose winning specificity no other one exceeds.
Top(name) ==
    {i \in Declaring(name) :
        \A j \in Declaring(name) :
            ~Higher(WinningSpecificity(elem, stylesheet.rules[j]),
                    WinningSpecificity(elem, stylesheet.rules[i]))}

Max(S) == CHOOSE x \in S : \A y \in S : y <= x

----------------------------------------------------------------------------
(* C1: the value resolved for a property is declared by a matching rule    *)
(* whose winning-selector specificity is maximal among the matching rules  *)
(* that declare the property; in particular, when exactly two matching     *)
(* rules declare it with different specificity, the value is one declared  *)
(* by the higher one, wherever it stands in the stylesheet.                *)
C1_HighestSpecificityWins ==
    pc = "styled" =>
        \A name \in DOMAIN values :
            /\ \E i \in Top(name) :
                  values[name] \in DeclaredValues(stylesheet.rules[i], name)
            /\ \A i, j \in Declaring(name) :
                  ( /\ Declaring(name) = {i, j}
                    /\ Higher(WinningSpecificity(elem, stylesheet.rules[i]),
                              WinningSpecificity(elem, stylesheet.rules[j])) )
                  => values[name] \in DeclaredValues(stylesheet.rules[i], name)

\* The higher-specificity rule stands first, the lower one later declares
\* another value, and the higher one's value is the result.
C1_Witness ==
    /\ pc = "styled"
    /\ "color" \in DOMAIN values
    /\ \E i, j \in Declaring("color") :
          /\ i < j
          /\ Higher(WinningSpecificity(elem, stylesheet.rules[i]),
                    WinningSpecificity(elem, stylesheet.rules[j]))
          /\ DeclaredValues(stylesheet.rules[i], "color") = {White}
          /\ DeclaredValues(stylesheet.rules[j], "color") = {Black}
          /\ values["color"] = White

(* C2: when several matching rules of equal specificity declare a property *)
(* and no matching rule of higher specificity declares it, the resolved    *)
(* value is one declared by the latest of them in the stylesheet.          *)
C2_EqualSpecificityLatestWins ==
    pc = "styled" =>
        \A name \in DOMAIN values :
            Cardinality(Top(name)) >= 2 =>
                values[name] \in DeclaredValues(stylesheet.rules[Max(Top(name))], name)

\* Two equal-specificity rules declare different colours, a rule of lower
\* specificity stands after both, and the later of the two equal ones wins.
C2_Witness ==
    /\ pc = "styled"
    /\ "color" \in DOMAIN values
    /\ \E i, j \in Top("color"), k \in Declaring("color") :
          /\ i < j /\ j < k
          /\ k \notin Top("color")
          /\ j = Max(Top("color"))
          /\ DeclaredValues(stylesheet.rules[i], "color") = {White}
          /\ DeclaredValues(stylesheet.rules[j], "color") = {Black}
          /\ DeclaredValues(stylesheet.rules[k], "color") = {White}
          /\ values["color"] = Black

(* C3: matches_simple_selector is true exactly when the selector has no    *)
(* tag or the element's tag equals it, the selector has no id or the       *)
(* element's id attribute equals it, and every class of the selector is    *)
(* one of the space-separated pieces of the element's class attribute; the *)
(* universal selector matches every element and a selector with an id or a *)
(* class never matches an element without that attribute.                  *)
C3_MatchesSimpleSelector ==
    pc = "matched" =>
        /\ result =
             ( /\ (selector.tag_name = None \/ selector.tag_name = Some(elem.tag_name))
               /\ (selector.id = None
                      \/ ("id" \in DOMAIN elem.attrs /\ selector.id = Some(elem.attrs["id"])))
               /\ selector.classes \subseteq ClassSet(elem) )
        /\ (selector = SimpleSelector(None, None, {}) => result = TRUE)
        /\ (selector.id # None /\ "id" \notin DOMAIN elem.attrs => result = FALSE)
        /\ (selector.classes # {} /\ "class" \notin DOMAIN elem.attrs => result = FALSE)

\* A two-class selector matched against a class attribute of two names.
C3_Witness ==
    /\ pc = "matched"
    /\ result = TRUE
    /\ selector.classes = {<<"a">>, <<"b">>}
    /\ "class" \in DOMAIN elem.attrs
    /\ elem.attrs["class"] = <<"b", " ", "a">>

(* C4: match_rule returns None exactly when no selector of the rule        *)
(* matches the element; otherwise it pairs the rule with the specificity   *)
(* of the first matching selector of the sorted list, and no matching      *)
(* selector of the rule has a higher specificity.                          *)
C4_MatchRuleMostSpecific ==
    pc = "matched" =>
        LET ss == rule.selectors.selectors
            hits == {i \in 1..Len(ss) : matches(elem, ss[i])}
        IN  /\ (matched = None) <=> (\A sel \in Range(selectors) : ~matches(elem, sel))
            /\ matched # None =>
                  /\ Len(matched) = 1
                  /\ matched[1][2] = rule
                  /\ matched[1][1] = SpecTriple(ss[Min(hits)])
                  /\ \A sel \in Range(selectors) :
                        matches(elem, sel) => ~Higher(SpecTriple(sel), matched[1][1])

\* The id selector is written last of three matching selectors and wins.
C4_Witness ==
    /\ pc = "matched"
    /\ Len(selectors) = 3
    /\ \A i \in 1..3 : matches(elem, selectors[i])
    /\ SpecTriple(selectors[1]) = <<0, 0, 1>>
    /\ SpecTriple(selectors[2]) = <<0, 1, 0>>
    /\ SpecTriple(selectors[3]) = <<1, 0, 0>>
    /\ matched # None
    /\ matched[1][1] = <<1, 0, 0>>

\* The permutations of 1..n.
IndexPermutations(n) ==
    {p \in [1..n -> 1..n] : \A i, j \in 1..n : p[i] = p[j] => i = j}

(* C5: the selector list of a parsed rule is a permutation of the list     *)
(* handed to SortedSelectors::new, in non-increasing order of the          *)
(* specificity triple compared lexicographically, with selectors of equal  *)
(* specificity in their input order.                                       *)
C5_SortedSelectorsStableDescending ==
    pc \in {"rule", "matched"} =>
        LET out == rule.selectors.selectors
            n == Len(selectors)
        IN  /\ Len(out) = n
            /\ \E p \in IndexPermutations(n) :
                  /\ \A i \in 1..n : out[i] = selectors[p[i]]
                  /\ \A i, j \in 1..n :
                        (i < j /\ SpecTriple(out[i]) = SpecTriple(out[j])) => p[i] < p[j]
            /\ \A i \in 1..(n - 1) : ~Higher(SpecTriple(out[i + 1]), SpecTriple(out[i]))

\* Two distinct selectors of equal specificity are written before a more
\* specific one; the sort moves the latter to the front and keeps the
\* order of the two.
C5_Witness ==
    /\ pc = "rule"
    /\ Len(selectors) = 3
    /\ selectors[1] # selectors[2]
    /\ SpecTriple(selectors[1]) = SpecTriple(selectors[2])
    /\ Higher(SpecTriple(selectors[3]), SpecTriple(selectors[1]))
    /\ rule.selectors.selectors = <<selectors[3], selectors[1], selectors[2]>>

\* The k-th smallest element of a set of numbers.
Nth(S, k) == CHOOSE x \in S : Cardinality({y \in S : y <= x}) = k

(* C6: css_specified_values always returns a map; its keys are exactly the *)
(* property names declared by the rules that match the element, so a rule  *)
(* that does not match contributes nothing and an element matched by no    *)
(* rule gets the empty map; matching_rules lists the matching rules in     *)
(* stylesheet order.                                                       *)
C6_KeysAreMatchingDeclarations ==
    /\ pc \in {"parse", "styled"}
    /\ pc = "styled" =>
        LET hits == {i \in 1..Len(stylesheet.rules) :
                        RuleMatches(elem, stylesheet.rules[i])}
        IN  /\ DOMAIN values =
                  UNION {{stylesheet.rules[i].declarations[k].name :
                              k \in 1..Len(stylesheet.rules[i].declarations)} : i \in hits}
            /\ (hits = {} => values = EmptyMap)
            /\ Len(matched) = Cardinality(hits)
            /\ \A k \in 1..Len(matched) : matched[k][2] = stylesheet.rules[Nth(hits, k)]

\* A rule that does not match stands between two that do, and declares a
\* property that neither of them declares.
C6_Witness ==
    /\ pc = "styled"
    /\ Len(stylesheet.rules) = 3
    /\ RuleMatches(elem, stylesheet.rules[1])
    /\ ~RuleMatches(elem, stylesheet.rules[2])
    /\ RuleMatches(elem, stylesheet.rules[3])
    /\ Declares(stylesheet.rules[2], "display")
    /\ DOMAIN values = {"color"}
    /\ Len(matched) = 2
    /\ matched[1][2] # matched[2][2]

----------------------------------------------------------------------------
(* Definitions used to state the properties of trees *)

\* The paths of the nodes of a tree whose nodes have a children field.
RECURSIVE PathsOf(_)
PathsOf(t) ==
    {<<>>} \cup UNION { { <<i>> \o q : q \in PathsOf(t.children[i]) } :
                          i \in 1..Len(t.children) }

\* The node of such a tree at path q.
RECURSIVE At(_, _)
At(t, q) == IF q = <<>> THEN t ELSE At(t.children[q[1]], Tail(q))

\* The same for document nodes, whose children are behind Node::children.
RECURSIVE DocPaths(_)
DocPaths(n) ==
    {<<>>} \cup UNION { { <<i>> \o q : q \in DocPaths(children(n)[i]) } :
                          i \in 1..Len(children(n)) }

RECURSIVE DocAt(_, _)
DocAt(n, q) == IF q = <<>> THEN n ELSE DocAt(children(n)[q[1]], Tail(q))

\* The resolved value of `display` of a styled node is v.
DisplayIs(sn, v) ==
    "display" \in DOMAIN sn.css_specified_values
        /\ sn.css_specified_values["display"] = v

\* The classification of a styled node as the specification words it.
Shown(sn) ==
    IF DisplayIs(sn, Keyword("block")) THEN "Block"
    ELSE IF DisplayIs(sn, Keyword("none")) THEN "None"
    ELSE "Inline"

\* The style-node references of the boxes of a box tree, in preorder.
RECURSIVE BoxRefs(_)
BoxRefs(box) ==
    LET f[i \in 0..Len(box.children)] ==
            IF i = 0 THEN <<>> ELSE f[i - 1] \o BoxRefs(box.children[i])
    IN  (IF box.box_type.type = "AnonymousBlock" THEN <<>>
         ELSE <<box.box_type.style_node>>) \o f[Len(box.children)]

Count(seq, x) == Cardinality({i \in 1..Len(seq) : seq[i] = x})

\* The styled node at path q, or one of its ancestors other than the root,
\* has display None.
Dropped(q) ==
    \E k \in 1..Len(q) : Shown(At(styled, SubSeq(q, 1, k))) = "None"

(* C7: the style tree has the shape and child order of the document tree,  *)
(* each styled node refers to the document node at its own place, a Text   *)
(* node has the empty property map, and an Element node has the cascade    *)
(* result of that element taken without its children.                      *)
C7_StyleTreeMirrorsDocument ==
    pc \in {"styled", "built", "panic"} =>
        /\ PathsOf(styled) = DocPaths(document)
        /\ \A q \in DocPaths(document) :
              LET n == DocAt(document, q)
                  sn == At(styled, q)
              IN  /\ sn.node = q
                  /\ n.type = "Text" => sn.css_specified_values = EmptyMap
                  /\ n.type = "Element" =>
                        sn.css_specified_values =
                            css_specified_values(
                                ElementData(n.data.tag_name, n.data.attrs, <<>>),
                                stylesheet)

\* A div with a Text child, a p child and a div child that has a child of
\* its own, under a stylesheet that styles div and p differently.
C7_Witness ==
    /\ pc = "styled"
    /\ document.type = "Element"
    /\ Len(children(document)) = 3
    /\ children(document)[1].type = "Text"
    /\ children(document)[2].type = "Element"
    /\ children(document)[2].data.tag_name = "p"
    /\ children(document)[3].type = "Element"
    /\ Len(children(children(document)[3])) = 1
    /\ styled.css_specified_values # EmptyMap
    /\ styled.children[1].css_specified_values = EmptyMap
    /\ styled.children[2].css_specified_values # EmptyMap
    /\ styled.children[2].css_specified_values # styled.css_specified_values
    /\ styled.children[3].css_specified_values = styled.css_specified_values

(* C8: display is Block exactly when the resolved `display` is the keyword *)
(* "block", None exactly when it is the keyword "none", and Inline         *)
(* otherwise; when no rule of the stylesheet declares `display`, every     *)
(* node is Inline.  A box built for a node is a BlockNode exactly when the *)
(* node's display is the keyword "block".                                  *)
C8_DisplayClassification ==
    /\ pc \in {"styled", "built", "panic"} =>
          \A q \in PathsOf(styled) :
              LET sn == At(styled, q)
              IN  /\ display(sn) = "Block" <=> DisplayIs(sn, Keyword("block"))
                  /\ display(sn) = "None" <=> DisplayIs(sn, Keyword("none"))
                  /\ display(sn) = "Inline" <=>
                        ~DisplayIs(sn, Keyword("block")) /\ ~DisplayIs(sn, Keyword("none"))
                  /\ (\A i \in 1..Len(stylesheet.rules) :
                          ~Declares(stylesheet.rules[i], "display"))
                        => display(sn) = "Inline"
    /\ pc = "built" =>
          \A b \in PathsOf(layout_tree) :
              LET box == At(layout_tree, b)
              IN  box.box_type.type # "AnonymousBlock" =>
                    /\ box.box_type.type \in {"BlockNode", "InlineNode"}
                    /\ box.box_type.type = "BlockNode" <=>
                          DisplayIs(At(styled, box.box_type.style_node), Keyword("block"))

\* One tree holds a node whose display is a length, a node whose display is
\* the keyword "block" and a Text node, and boxes were built for them.
C8_Witness ==
    /\ pc = "built"
    /\ \E q1, q2, q3 \in PathsOf(styled) :
          /\ DisplayIs(At(styled, q1), Length(5))
          /\ DisplayIs(At(styled, q2), Keyword("block"))
          /\ DocAt(document, q3).type = "Text"
          /\ Count(BoxRefs(layout_tree), q1) = 1
          /\ Count(BoxRefs(layout_tree), q2) = 1
          /\ Count(BoxRefs(layout_tree), q3) = 1

(* C9: in a box tree that build_layout_tree returns, no box refers to a    *)
(* non-root styled node whose display is None or to a descendant of such a *)
(* node, and every other styled node is referred to by exactly one box.    *)
C9_DisplayNoneSubtreeDropped ==
    pc = "built" =>
        \A q \in PathsOf(styled) :
            Count(BoxRefs(layout_tree), q) = (IF Dropped(q) THEN 0 ELSE 1)

\* A display-None child has a display-Block child of its own and a sibling
\* that is kept.
C9_Witness ==
    /\ pc = "built"
    /\ \E q \in PathsOf(styled) :
          /\ Len(q) = 2
          /\ Shown(At(styled, SubSeq(q, 1, 1))) = "None"
          /\ Shown(At(styled, q)) = "Block"
          /\ Count(BoxRefs(layout_tree), q) = 0
    /\ Len(layout_tree.children) >= 1

\* The references of the children of a Block box, an AnonymousBlock child
\* standing for the references of its own children.
Flat(box) ==
    LET f[i \in 0..Len(box.children)] ==
            IF i = 0 THEN <<>>
            ELSE f[i - 1] \o
                 (IF box.children[i].box_type.type = "AnonymousBlock"
                  THEN [k \in 1..Len(box.children[i].children) |->
                            box.children[i].children[k].box_type.style_node]
                  ELSE <<box.children[i].box_type.style_node>>)
    IN  f[Len(box.children)]

\* The references of the children of the styled node at q whose display is
\* not None, in document order.
Retained(q) ==
    LET sn == At(styled, q)
        f[i \in 0..Len(sn.children)] ==
            IF i = 0 THEN <<>>
            ELSE f[i - 1] \o (IF Shown(sn.children[i]) = "None" THEN <<>>
                              ELSE <<q \o <<i>> >>)
    IN  f[Len(sn.children)]

(* C10: under a Block box the retained children appear in document order,  *)
(* each Block child as a direct child box and each Inline child inside an  *)
(* AnonymousBlock; an AnonymousBlock holds Inline children only and at     *)
(* least one, and no two AnonymousBlocks are adjacent, so each maximal run *)
(* of consecutive Inline children is in exactly one AnonymousBlock and two *)
(* Inline children separated by a Block child are in different ones.       *)
C10_InlineRunsGrouped ==
    pc = "built" =>
        \A b \in PathsOf(layout_tree) :
            LET box == At(layout_tree, b)
                kids == box.children
            IN  box.box_type.type = "BlockNode" =>
                  /\ Flat(box) = Retained(box.box_type.style_node)
                  /\ \A i \in 1..Len(kids) :
                        /\ kids[i].box_type.type \in {"BlockNode", "AnonymousBlock"}
                        /\ kids[i].box_type.type = "AnonymousBlock" =>
                              /\ Len(kids[i].children) >= 1
                              /\ \A k \in 1..Len(kids[i].children) :
                                    kids[i].children[k].box_type.type = "InlineNode"
                  /\ \A i \in 1..(Len(kids) - 1) :
                        ~(kids[i].box_type.type = "AnonymousBlock"
                            /\ kids[i + 1].box_type.type = "AnonymousBlock")

\* Inline, display-None, Inline, Block children of a Block root: the two
\* Inline children share one AnonymousBlock, which the Block child follows.
C10_Witness ==
    /\ pc = "built"
    /\ Len(styled.children) = 4
    /\ Shown(styled) = "Block"
    /\ Shown(styled.children[1]) = "Inline"
    /\ Shown(styled.children[2]) = "None"
    /\ Shown(styled.children[3]) = "Inline"
    /\ Shown(styled.children[4]) = "Block"
    /\ Len(layout_tree.children) = 2
    /\ layout_tree.children[1].box_type.type = "AnonymousBlock"
    /\ Len(layout_tree.children[1].children) = 2
    /\ layout_tree.children[2].box_type = BlockNode(<<4>>)

----------------------------------------------------------------------------
(* calculate_block_width on the box of the outermost layout call *)

\* calculate_block_width has returned for the outermost box and nothing
\* else has been written to it.
WidthCalculated ==
    pc = "layout" /\ Len(stack) = 1 /\ stack[1].phase = "position"

Auto == Keyword("auto")

\* The value a property resolves to: its own declaration, else that of
\* its shorthand, else the given default.
Specified(name, shorthand, absent) ==
    LET css == styled.css_specified_values
    IN  IF name \in DOMAIN css THEN css[name]
        ELSE IF shorthand \in DOMAIN css THEN css[shorthand]
        ELSE absent

\* A value in the unit of the dimensions; everything but a length is 0.
Pixels(v) == IF v.type = "Length" THEN Scale * v.px ELSE 0

Width == Specified("width", "width", Auto)
MarginLeft == Specified("margin-left", "margin", Length(0))
MarginRight == Specified("margin-right", "margin", Length(0))

\* The total of the seven horizontal values, auto counted as 0.
Total ==
    Pixels(MarginLeft) + Pixels(MarginRight)
    + Pixels(Specified("border-left-width", "border-width", Length(0)))
    + Pixels(Specified("border-right-width", "border-width", Length(0)))
    + Pixels(Specified("padding-left", "padding", Length(0)))
    + Pixels(Specified("padding-right", "padding", Length(0)))
    + Pixels(Width)

Underflow == containing_block.content.width - Total

\* The horizontal result (content width, margin-left, margin-right).
Horizontal ==
    <<layout_tree.dimensions.content.width, layout_tree.dimensions.margin.left,
      layout_tree.dimensions.margin.right>>

\* The box of the test: only width, margin-left and margin-right are
\* specified, in a containing block 10 pixels wide.
TestCase(w, ml, mr) ==
    /\ DOMAIN styled.css_specified_values =
           {"display", "width", "margin-left", "margin-right"}
    /\ Width = w /\ MarginLeft = ml /\ MarginRight = mr
    /\ containing_block.content.width = 10 * Scale

\* C11: when none of width, margin-left and margin-right is auto,
\* calculate_block_width gives content width = width, margin-left = the
\* specified margin-left and margin-right = the specified margin-right
\* + underflow, with underflow = containing content width - the total of
\* the seven horizontal values, whatever the sign of the underflow; in a
\* containing block of 10, width 20 with margins 10 and 10 gives
\* (20, 10, -20).
C11_NoneAuto ==
    WidthCalculated =>
        /\ (Width # Auto /\ MarginLeft # Auto /\ MarginRight # Auto) =>
               Horizontal = <<Pixels(Width), Pixels(MarginLeft),
                              Pixels(MarginRight) + Underflow>>
        /\ TestCase(Length(20), Length(10), Length(10)) =>
               Horizontal = <<20 * Scale, 10 * Scale, (-20) * Scale>>

\* The example of C11, whose underflow is negative, has been laid out.
C11_Witness ==
    /\ WidthCalculated
    /\ TestCase(Length(20), Length(10), Length(10))
    /\ Underflow < 0
    /\ Horizontal = <<20 * Scale, 10 * Scale, (-20) * Scale>>

\* C12: when width is not auto and the total of the seven horizontal
\* values (auto counted as 0) does not exceed the containing content
\* width, content width = width and the auto margins absorb the whole
\* underflow: a single auto margin becomes the underflow while the other
\* margin keeps its specified value, and two auto margins become half the
\* underflow each.
C12_AutoMarginsAbsorbUnderflow ==
    (WidthCalculated /\ Width # Auto
     /\ Total <= containing_block.content.width) =>
        /\ Horizontal[1] = Pixels(Width)
        /\ (MarginLeft = Auto /\ MarginRight # Auto) =>
               Horizontal = <<Pixels(Width), Underflow, Pixels(MarginRight)>>
        /\ (MarginLeft # Auto /\ MarginRight = Auto) =>
               Horizontal = <<Pixels(Width), Pixels(MarginLeft), Underflow>>
        /\ (MarginLeft = Auto /\ MarginRight = Auto) =>
               /\ 2 * Horizontal[2] = Underflow
               /\ 2 * Horizontal[3] = Underflow

\* Width 1 with two auto margins in a containing block of 10: each margin
\* is 4.5.
C12_Witness ==
    /\ WidthCalculated
    /\ TestCase(Length(1), Auto, Auto)
    /\ Horizontal = <<1 * Scale, 9, 9>>

\* The value of a margin once auto has resolved to 0.
Zeroed(margin) == IF margin = Auto THEN 0 ELSE Pixels(margin)

\* C13: when width is auto or absent, every auto margin resolves to 0; a
\* non-negative underflow becomes the content width and the margins keep
\* their values; with a negative underflow the content width is 0,
\* margin-left is unchanged and margin-right is margin-right + underflow.
\* The content width is never negative.
C13_AutoWidth ==
    (WidthCalculated /\ Width = Auto) =>
        /\ Underflow >= 0 =>
               Horizontal = <<Underflow, Zeroed(MarginLeft), Zeroed(MarginRight)>>
        /\ Underflow < 0 =>
               Horizontal = <<0, Zeroed(MarginLeft),
                              Zeroed(MarginRight) + Underflow>>
        /\ Horizontal[1] >= 0

\* No width, margin-left 11 and an auto margin-right in a containing block
\* of 10: the underflow of -1 goes to the zeroed right margin.
C13_Witness ==
    /\ WidthCalculated
    /\ DOMAIN styled.css_specified_values =
           {"display", "margin-left", "margin-right"}
    /\ MarginLeft = Length(11) /\ MarginRight = Auto
    /\ containing_block.content.width = 10 * Scale
    /\ Underflow < 0
    /\ Horizontal = <<0, 11 * Scale, (-1) * Scale>>

\* C14: when width is not auto and the total of the seven horizontal
\* values exceeds the containing content width, every auto margin counts
\* as 0 and the row without auto applies: content width = width, an auto
\* margin-left ends as 0 and margin-right ends as its specified value (0
\* if it was auto) + underflow.
C14_OverconstrainedAutoMarginsZeroed ==
    (WidthCalculated /\ Width # Auto
     /\ Total > containing_block.content.width) =>
        Horizontal = <<Pixels(Width), Zeroed(MarginLeft),
                       Zeroed(MarginRight) + Underflow>>

\* Width 11 with an auto margin-left and margin-right 1 in a containing
\* block of 10: margin-left is 0, not -2.
C14_Witness ==
    /\ WidthCalculated
    /\ TestCase(Length(11), Auto, Length(1))
    /\ Horizontal = <<11 * Scale, 0, (-1) * Scale>>

----------------------------------------------------------------------------
(* The layout pass of dump_layout *)

\* The dimensions of the box at path q of the box tree.
Dim(q) == At(layout_tree, q).dimensions

\* The containing block of the call that lays out the box at path q: the
\* viewport for the root box, the parent box as it is now for a child.
Containing(q) ==
    IF q = <<>> THEN containing_block ELSE Dim(SubSeq(q, 1, Len(q) - 1))

\* The sum of the sizes of the edges on one side of a box.
Edges(d, side) == d.margin[side] + d.border[side] + d.padding[side]

\* The top edge and the height of the margin box of a box.
MarginTop(d) == d.content.y - Edges(d, "top")
MarginHeight(d) == d.content.height + Edges(d, "top") + Edges(d, "bottom")

\* The sum of the margin-box heights of the first n children of a box.
RECURSIVE HeightOfChildren(_, _)
HeightOfChildren(box, n) ==
    IF n = 0 THEN 0
    ELSE HeightOfChildren(box, n - 1) + MarginHeight(box.children[n].dimensions)

\* C15: a step of calculate_block_position sets content.x to the containing
\* content x + margin-left + border-left + padding-left, with the left edges
\* the box had before the step (those of calculate_block_width), and
\* content.y to the containing content y + the content height the
\* containing block has at the step + margin-top + border-top + padding-top.
C15_BlockPosition ==
    [][(pc = "layout" /\ stack[Len(stack)].phase = "position") =>
          LET q == stack[Len(stack)].box
              before == Dim(q)
              after == At(layout_tree', q).dimensions
              cb == Containing(q)
          IN  /\ after.content.x = cb.content.x + Edges(before, "left")
              /\ after.content.y =
                     cb.content.y + cb.content.height + Edges(after, "top")
              /\ after.margin.left = before.margin.left
              /\ after.border.left = before.border.left
              /\ after.padding.left = before.padding.left]_vars

\* The second div of (p (div) (div)) with a margin of 10 has been placed
\* while its containing block is 20 high: it is at (10, 30).
C15_Witness ==
    /\ pc = "layout" /\ Len(stack) = 2
    /\ stack[2].box = <<2>> /\ stack[2].phase = "children"
    /\ Containing(<<2>>).content.height = 20 * Scale
    /\ Edges(Dim(<<2>>), "top") = 10 * Scale
    /\ Dim(<<2>>).content.x = 10 * Scale
    /\ Dim(<<2>>).content.y = 30 * Scale

\* The document (p (div) (div)) and the stylesheet
\* `* { display: block } div { margin: 10px }` of layout_test.
LayoutTestInput ==
    /\ document = Element("p", EmptyAttrs,
                          <<Element("div", EmptyAttrs, <<>>),
                            Element("div", EmptyAttrs, <<>>)>>)
    /\ stylesheet =
           Stylesheet(<<parser_rule(<<SimpleSelector(None, None, {})>>,
                           <<Declaration("display", Keyword("block"))>>),
                        parser_rule(<<SimpleSelector(Some("div"), None, {})>>,
                           <<Declaration("margin", Length(10))>>)>>)

\* The content rectangle of layout_test's expectations.
ContentIs(q, x, y, width, height) ==
    Dim(q).content = Rect(x * Scale, y * Scale, width * Scale, height * Scale)

\* C16: after the layout of a freshly built tree of Block boxes, the top
\* edge of the margin box of the i-th child of every box is the parent's
\* content.y plus the sum of the margin-box heights of the children before
\* it, so that siblings stack without overlap, gap or margin collapsing;
\* (p (div) (div)) with `* { display: block } div { margin: 10px }` in the
\* 800 pixel viewport has its children at y = 10 and y = 30 with width 780
\* and a root content height of 40.
C16_SiblingsStack ==
    pc = "done" =>
        /\ \A q \in PathsOf(layout_tree) :
              \A i \in 1..Len(At(layout_tree, q).children) :
                  MarginTop(Dim(q \o <<i>>)) =
                      Dim(q).content.y
                      + HeightOfChildren(At(layout_tree, q), i - 1)
        /\ LayoutTestInput =>
              /\ ContentIs(<<>>, 0, 0, 800, 40)
              /\ ContentIs(<<1>>, 10, 10, 780, 0)
              /\ ContentIs(<<2>>, 10, 30, 780, 0)

\* layout_test has been laid out.
C16_Witness ==
    /\ pc = "done"
    /\ LayoutTestInput
    /\ MarginTop(Dim(<<2>>)) = 20 * Scale
    /\ MarginHeight(Dim(<<1>>)) = 20 * Scale
    /\ Dim(<<>>).content.height = 40 * Scale

\* The value of `height` of the element a box was made for is a length.
HasHeight(box) ==
    LET css == At(styled, box.box_type.style_node).css_specified_values
    IN  "height" \in DOMAIN css /\ css["height"].type = "Length"

HeightOf(box) ==
    At(styled, box.box_type.style_node).css_specified_values["height"]

\* C17: after the layout of a freshly built tree, the content height of a
\* Block box is the pixel value of its `height` when that is a length in
\* pixels, and otherwise (absent, auto or another value that is no length)
\* the sum of the margin-box heights of its children, 0 without children;
\* an explicit height replaces the height of the children even when the
\* children are taller.
C17_BlockHeight ==
    pc = "done" =>
        \A q \in PathsOf(layout_tree) :
            LET box == At(layout_tree, q)
            IN  /\ box.box_type.type = "BlockNode"
                /\ Dim(q).content.height =
                       IF HasHeight(box) THEN Pixels(HeightOf(box))
                       ELSE HeightOfChildren(box, Len(box.children))

\* A box with an explicit height has been laid out whose children are
\* taller than that height, and it has a child whose height is auto.
C17_Witness ==
    /\ pc = "done"
    /\ \E q \in PathsOf(layout_tree) :
          LET box == At(layout_tree, q)
          IN  /\ HasHeight(box)
              /\ box.children # <<>>
              /\ HeightOfChildren(box, Len(box.children)) > Pixels(HeightOf(box))
              /\ Dim(q).content.height = Pixels(HeightOf(box))
              /\ ~HasHeight(box.children[1])
              /\ Dim(q \o <<1>>).content.height =
                     HeightOfChildren(box.children[1],
                                      Len(box.children[1].children))

\* The box tree has been built and its root is a Block box.
BlockRoot ==
    pc \in {"built", "layout", "done", "unimplemented"}
        /\ layout_tree.box_type.type = "BlockNode"

\* Some box below the root of the box tree is no Block box.
OtherBoxBelow ==
    \E q \in PathsOf(layout_tree) :
        q # <<>> /\ At(layout_tree, q).box_type.type # "BlockNode"

\* The box on which the call of layout that is fatal was made: the root
\* for the call of dump_layout, and the next child of the box that
\* layout_block_children was running on otherwise.
FatalBox ==
    IF stack = <<>> THEN <<>>
    ELSE stack[Len(stack)].box \o <<stack[Len(stack)].i>>

\* The statement of C18 as the specification words it: the layout of a
\* Block root is never fatal, whatever boxes are below it.
C18_BlockRootNeverFatal == BlockRoot => pc # "unimplemented"

\* C18: the layout of a Block root returns only when every box of the tree
\* is a Block box; an InlineNode or AnonymousBlock box is fatal when layout
\* is called on it, by layout_block_children for a child just as by the
\* outermost call, and nothing else is fatal in the layout pass.
C18_OtherBoxFatalAnywhere ==
    /\ pc = "done" =>
           \A q \in PathsOf(layout_tree) :
               At(layout_tree, q).box_type.type = "BlockNode"
    /\ pc = "unimplemented" =>
           /\ FatalBox \in PathsOf(layout_tree)
           /\ At(layout_tree, FatalBox).box_type.type
                  \in {"InlineNode", "AnonymousBlock"}
    /\ (BlockRoot /\ OtherBoxBelow) => pc # "done"

\* A block element with a text child: the layout of the Block root was
\* fatal at its AnonymousBlock child.
C18_Witness ==
    /\ pc = "unimplemented"
    /\ BlockRoot
    /\ document = Element("div", EmptyAttrs, <<Text("hello")>>)
    /\ FatalBox = <<1>>
    /\ At(layout_tree, <<1>>).box_type.type = "AnonymousBlock"

\* Every box of a box tree has the dimensions it was made with.
RECURSIVE Untouched(_)
Untouched(box) ==
    /\ box.dimensions =
           [content |-> [x |-> 0, y |-> 0, width |-> 0, height |-> 0],
            padding |-> [left |-> 0, right |-> 0, top |-> 0, bottom |-> 0],
            border |-> [left |-> 0, right |-> 0, top |-> 0, bottom |-> 0],
            margin |-> [left |-> 0, right |-> 0, top |-> 0, bottom |-> 0]]
    /\ \A i \in 1..Len(box.children) : Untouched(box.children[i])

\* C19: a call of layout on an InlineNode or AnonymousBlock box as the
\* outermost call is a panic that leaves every Dimensions field as it was:
\* the pass never enters layout_block and never returns; a document whose
\* root element is not given `display: block` is never laid out.  Whichever
\* call of layout is fatal, no field of the box it was made on is written.
C19_TopLevelOtherBoxFatal ==
    /\ (pc \in {"built", "layout", "done", "unimplemented"}
        /\ layout_tree.box_type.type \in {"InlineNode", "AnonymousBlock"}) =>
           /\ pc \in {"built", "unimplemented"}
           /\ stack = <<>>
           /\ Untouched(layout_tree)
    /\ (pc # "parsed" /\ Shown(styled) # "Block") =>
           pc \in {"styled", "built", "panic", "unimplemented"}
    /\ pc = "unimplemented" => Untouched(At(layout_tree, FatalBox))

\* The root element has no display rule, its box is an InlineNode with a
\* child box, and the call of dump_layout on it was fatal.
C19_Witness ==
    /\ pc = "unimplemented"
    /\ stack = <<>>
    /\ ~("display" \in DOMAIN styled.css_specified_values)
    /\ layout_tree.box_type.type = "InlineNode"
    /\ layout_tree.children # <<>>
    /\ Untouched(layout_tree)

\* C20: build_layout_tree on a styled node whose display is None panics
\* and no box tree exists afterwards; this happens for the root only: the
\* build of a tree whose root is shown returns, whatever is hidden below
\* the root, and no box of the tree is made for a node whose display is
\* None.
C20_DisplayNoneRootFatal ==
    /\ pc = "panic" => (Shown(styled) = "None" /\ layout_tree = Unused)
    /\ (pc \in {"built", "panic"} /\ Shown(styled) = "None") =>
           pc = "panic"
    /\ pc = "built" =>
           \A i \in 1..Len(BoxRefs(layout_tree)) :
               Shown(At(styled, BoxRefs(layout_tree)[i])) # "None"

\* The build of a document whose root has display None, and children, has
\* panicked.
C20_Witness ==
    /\ pc = "panic"
    /\ Shown(styled) = "None"
    /\ styled.children # <<>>
    /\ layout_tree = Unused


\* calculate_block_position has been called on the box at path q.
Positioned(q) ==
    \E k \in 1..Len(trace) :
        trace[k].box = q /\ trace[k].call = "calculate_block_position"

\* The value, in the unit of the dimensions, that a property of the
\* element of the box at path q resolves to by the rule of the horizontal
\* edges: its own declaration, else that of its shorthand, else 0.
Resolved(q, name, shorthand) ==
    LET css == At(styled, At(layout_tree, q).box_type.style_node)
                   .css_specified_values
    IN  IF name \in DOMAIN css THEN Pixels(css[name])
        ELSE IF shorthand \in DOMAIN css THEN Pixels(css[shorthand])
        ELSE 0

\* C21: calculate_block_position resolves the vertical edges by the
\* fallback rule of the horizontal ones: the top and bottom margins from
\* `margin-top` and `margin-bottom`, else `margin`, else 0; the top and
\* bottom borders from `border-top-width` and `border-bottom-width`, else
\* `border-width`, else 0; the top and bottom paddings from `padding-top`
\* and `padding-bottom`, else `padding`, else 0; so that `padding-top: 5px`
\* gives padding.top = 5.
C21_VerticalEdgesFallBack ==
    pc \in {"layout", "done", "unimplemented"} =>
        \A q \in PathsOf(layout_tree) :
            Positioned(q) =>
                /\ Dim(q).margin.top = Resolved(q, "margin-top", "margin")
                /\ Dim(q).margin.bottom = Resolved(q, "margin-bottom", "margin")
                /\ Dim(q).border.top =
                       Resolved(q, "border-top-width", "border-width")
                /\ Dim(q).border.bottom =
                       Resolved(q, "border-bottom-width", "border-width")
                /\ Dim(q).padding.top = Resolved(q, "padding-top", "padding")
                /\ Dim(q).padding.bottom =
                       Resolved(q, "padding-bottom", "padding")


----------------------------------------------------------------------------
(* Further properties of calculate_block_width *)

\* The names of the properties calculate_block_width reads, and one that
\* no stylesheet declares.
HorizontalNames ==
    {"width", "margin-left", "margin-right", "margin", "padding-left",
     "padding-right", "padding", "border-left-width", "border-right-width",
     "border-width", "missing"}

\* C22: lookup(name, fallback, default) is the value of name when it is
\* declared, else the value of fallback when that is declared, else
\* default; hence after calculate_block_width each left and right padding
\* and border is its own longhand when declared, even beside the shorthand,
\* else the shorthand `padding` or `border-width`, else 0, each side on its
\* own, and the margins enter the resolution with `margin-left` and
\* `margin-right`, else `margin`, else 0.
C22_LookupFallsBack ==
    WidthCalculated =>
        /\ \A n \in HorizontalNames, f \in HorizontalNames :
              lookup(styled, n, f, Length(7)) = Specified(n, f, Length(7))
        /\ layout_tree.dimensions.padding.left =
               Pixels(Specified("padding-left", "padding", Length(0)))
        /\ layout_tree.dimensions.padding.right =
               Pixels(Specified("padding-right", "padding", Length(0)))
        /\ layout_tree.dimensions.border.left =
               Pixels(Specified("border-left-width", "border-width", Length(0)))
        /\ layout_tree.dimensions.border.right =
               Pixels(Specified("border-right-width", "border-width", Length(0)))
        /\ MarginLeft # Auto =>
               layout_tree.dimensions.margin.left = Pixels(MarginLeft)
        /\ MarginRight # Auto =>
               layout_tree.dimensions.margin.right - Pixels(MarginRight)
                   \in {0, Underflow}

\* Both `padding-left` and `padding` are declared and differ, `margin` is
\* declared with `margin-right` but without `margin-left`: the left padding
\* is the longhand, the right padding the shorthand, the left margin the
\* shorthand and the right margin starts from the longhand.
C22_Witness ==
    /\ WidthCalculated
    /\ {"padding-left", "padding", "margin", "margin-right", "width"}
           \subseteq DOMAIN styled.css_specified_values
    /\ ~("margin-left" \in DOMAIN styled.css_specified_values)
    /\ styled.css_specified_values["padding-left"] = Length(3)
    /\ styled.css_specified_values["padding"] = Length(4)
    /\ styled.css_specified_values["margin-right"] = Length(1)
    /\ styled.css_specified_values["width"] = Length(2)
    /\ layout_tree.dimensions.padding.left = 3 * Scale
    /\ layout_tree.dimensions.padding.right = 4 * Scale
    /\ layout_tree.dimensions.margin.left = 5 * Scale
    /\ layout_tree.dimensions.margin.right = 1 * Scale + Underflow


\* The dimensions calculate_block_width gives the box of this state in
\* this containing block when its `width` is declared as w instead.
WithWidth(w) ==
    LET css == styled.css_specified_values
        other == [styled EXCEPT !.css_specified_values =
                     [n \in DOMAIN css \cup {"width"} |->
                         IF n = "width" THEN w ELSE css[n]]]
    IN  calculate_block_width(LayoutBox_new(other, <<>>), other,
                              containing_block).dimensions

\* C23: for every containing width and every choice of the other six
\* horizontal properties, calculate_block_width gives a box without
\* `width` the dimensions it gives the same box with `width: auto`; auto
\* is the value Keyword("auto") and nothing else, so that a box whose
\* width is another keyword is laid out as one of the fixed width 0.
C23_AbsentWidthIsAuto ==
    WidthCalculated =>
        /\ ~("width" \in DOMAIN styled.css_specified_values) =>
               layout_tree.dimensions = WithWidth(Auto)
        /\ (Width.type = "Keyword" /\ Width # Auto) =>
               /\ layout_tree.dimensions = WithWidth(Length(0))
               /\ Horizontal[1] = 0

\* A box without `width` whose margins are auto and 1 in a containing
\* block of 10 is 9 wide, as with `width: auto` and unlike with the fixed
\* width 0.
C23_Witness ==
    /\ WidthCalculated
    /\ DOMAIN styled.css_specified_values =
           {"display", "margin-left", "margin-right"}
    /\ MarginLeft = Auto /\ MarginRight = Length(1)
    /\ containing_block.content.width = 10 * Scale
    /\ Horizontal = <<9 * Scale, 0, 1 * Scale>>
    /\ layout_tree.dimensions = WithWidth(Auto)
    /\ layout_tree.dimensions # WithWidth(Length(0))


\* The width of the margin box of a box: its content width and the edges
\* on both sides.
MarginWidth(d) == Edges(d, "left") + d.content.width + Edges(d, "right")

\* C27: after calculate_block_width, whatever the width, margins, borders
\* and paddings are (auto or not, too wide or not), margin-left +
\* border-left + padding-left + content width + padding-right +
\* border-right + margin-right is exactly the content width of the
\* containing block: the margin box spans the containing block.
C27_MarginBoxSpansContainingBlock ==
    WidthCalculated =>
        MarginWidth(layout_tree.dimensions) = containing_block.content.width

\* A box of fixed width with two auto margins, a padding and a border,
\* whose margins are 2.5 each, and its margin box is 10 wide.
C27_Witness ==
    /\ WidthCalculated
    /\ DOMAIN styled.css_specified_values =
           {"display", "width", "margin-left", "margin-right",
            "padding-left", "border-right-width"}
    /\ Width = Length(1) /\ MarginLeft = Auto /\ MarginRight = Auto
    /\ containing_block.content.width = 10 * Scale
    /\ Horizontal = <<1 * Scale, 5, 5>>
    /\ MarginWidth(layout_tree.dimensions) = 10 * Scale


----------------------------------------------------------------------------
(* Further properties of the layout pass *)

\* A rectangle with each side moved outwards by the size of an edge.
Expanded(r, e) ==
    [x |-> r.x - e.left, y |-> r.y - e.top,
     width |-> r.width + e.left + e.right,
     height |-> r.height + e.top + e.bottom]

\* The three rectangles of every box of the tree are the content
\* rectangle expanded by the padding, that by the border, that by the
\* margin.
DerivedRectangles ==
    pc \in {"layout", "done", "unimplemented"} =>
        \A q \in PathsOf(layout_tree) :
            LET d == Dim(q)
            IN  /\ padding_box(d) = Expanded(d.content, d.padding)
                /\ border_box(d) =
                       Expanded(Expanded(d.content, d.padding), d.border)
                /\ margin_box(d) =
                       Expanded(Expanded(Expanded(d.content, d.padding),
                                         d.border), d.margin)
                /\ margin_box(d).height =
                       d.content.height + d.padding.top + d.padding.bottom
                       + d.border.top + d.border.bottom
                       + d.margin.top + d.margin.bottom

\* C24: padding_box is the content rectangle expanded by the padding,
\* border_box is padding_box expanded by the border and margin_box is
\* border_box expanded by the margin, where expanding by edges e gives
\* x - e.left, y - e.top, width + e.left + e.right and height + e.top +
\* e.bottom, so that the height of margin_box is the content height plus
\* the top and bottom padding, border and margin; and the step of
\* layout_block_children that takes the margin box of a child leaves the
\* Dimensions of that child as they were.
C24_DerivedRectangles ==
    /\ []DerivedRectangles
    /\ [][(pc = "layout" /\ Len(stack) > 1
           /\ stack[Len(stack)].phase = "returned") =>
              At(layout_tree', stack[Len(stack)].box).dimensions =
                  Dim(stack[Len(stack)].box)]_vars

\* A lone div with paddings of 2, borders of 1 and 6 at the top, margins
\* of 3 and 4 at the bottom has been laid out: its margin box is the
\* viewport's width and 18 high.
C24_Witness ==
    /\ pc = "done"
    /\ layout_tree.children = <<>>
    /\ Dim(<<>>).padding = [left |-> 2 * Scale, right |-> 2 * Scale,
                            top |-> 2 * Scale, bottom |-> 2 * Scale]
    /\ Dim(<<>>).border = [left |-> 1 * Scale, right |-> 1 * Scale,
                           top |-> 6 * Scale, bottom |-> 1 * Scale]
    /\ Dim(<<>>).margin = [left |-> 3 * Scale, right |-> 3 * Scale,
                           top |-> 3 * Scale, bottom |-> 4 * Scale]
    /\ Dim(<<>>).content = [x |-> 6 * Scale, y |-> 11 * Scale,
                            width |-> 788 * Scale, height |-> 0]
    /\ margin_box(Dim(<<>>)) =
           [x |-> 0, y |-> 0, width |-> 800 * Scale, height |-> 18 * Scale]


\* The pass that has just ended was made on the tree left by an earlier
\* pass.
SecondPass == previous # None /\ ~previous[1].rebuilt

\* The content height the box at path q had when the pass began.
HeightAtEntry(q) ==
    IF SecondPass THEN At(previous[1].tree, q).dimensions.content.height
    ELSE 0

\* C25: layout does not reset content.height, so that after a pass the
\* content height of a box of auto height is its content height at entry
\* plus the sum of the margin-box heights of its children.  A second pass
\* on the tree already laid out, with the same containing block, gives a
\* strictly higher root and children further down whenever the root is of
\* auto height and had a child whose margin box was of positive height,
\* while a pass on a tree built again from the same document and
\* stylesheet gives the first result again.
C25_RelayoutAccumulates ==
    pc = "done" =>
        /\ \A q \in PathsOf(layout_tree) :
              ~HasHeight(At(layout_tree, q)) =>
                  Dim(q).content.height =
                      HeightAtEntry(q)
                      + HeightOfChildren(At(layout_tree, q),
                                         Len(At(layout_tree, q).children))
        /\ (SecondPass /\ ~HasHeight(layout_tree)
            /\ \E i \in 1..Len(layout_tree.children) :
                   MarginHeight(previous[1].tree.children[i].dimensions) > 0) =>
               /\ Dim(<<>>).content.height
                      > previous[1].tree.dimensions.content.height
               /\ \A i \in 1..Len(layout_tree.children) :
                      Dim(<<i>>).content.y
                          > previous[1].tree.children[i].dimensions.content.y
        /\ (previous # None /\ previous[1].rebuilt) =>
               layout_tree = previous[1].tree

\* (p (div) (div)) with margins of 10 has been laid out a second time: the
\* root, 40 high after the first pass, is 80 high and its first child has
\* moved from y = 10 to y = 50.
C25_Witness ==
    /\ pc = "done"
    /\ SecondPass
    /\ LayoutTestInput
    /\ previous[1].tree.dimensions.content.height = 40 * Scale
    /\ previous[1].tree.children[1].dimensions.content.y = 10 * Scale
    /\ Dim(<<>>).content.height = 80 * Scale
    /\ Dim(<<1>>).content.y = 50 * Scale


\* The places of the record of the pass at which the call was made on the
\* box at path q.
Calls(q, call) ==
    {k \in 1..Len(trace) : trace[k].box = q /\ trace[k].call = call}

\* The place of the only such call, 0 when there is none.
Place(q, call) ==
    IF Calls(q, call) = {} THEN 0 ELSE CHOOSE k \in Calls(q, call) : TRUE

Started(q) == Place(q, "layout")
WidthAt(q) == Place(q, "calculate_block_width")
PositionAt(q) == Place(q, "calculate_block_position")
HeightAt(q) == Place(q, "calculate_block_height")

\* The place at which the parent box at path q grew by its n-th child, 0
\* when it has not.
GrownBy(q, n) ==
    LET adds == Calls(q, "layout_block_children")
    IN  IF Cardinality(adds) < n THEN 0
        ELSE CHOOSE k \in adds : Cardinality({j \in adds : j <= k}) = n

\* The order of the calls recorded so far.
PhasesInOrder ==
    pc \in {"layout", "done", "unimplemented"} =>
        \A q \in PathsOf(layout_tree) :
            LET n == Len(At(layout_tree, q).children)
            IN  /\ \A call \in {"layout", "calculate_block_width",
                                "calculate_block_position",
                                "calculate_block_height"} :
                       Cardinality(Calls(q, call)) <= 1
                /\ Cardinality(Calls(q, "layout_block_children")) <= n
                \* width, then position, then children, then height
                /\ WidthAt(q) # 0 => (Started(q) # 0 /\ Started(q) < WidthAt(q))
                /\ PositionAt(q) # 0 =>
                       (WidthAt(q) # 0 /\ WidthAt(q) < PositionAt(q))
                /\ \A i \in 1..n :
                       LET c == q \o <<i>>
                       IN  /\ Started(c) # 0 =>
                                  /\ PositionAt(q) # 0
                                  /\ PositionAt(q) < Started(c)
                                  /\ HeightAt(q) = 0 \/ Started(c) < HeightAt(q)
                                  \* the children before it have finished and
                                  \* the parent has grown by each of them
                                  /\ i > 1 =>
                                         /\ GrownBy(q, i - 1) # 0
                                         /\ GrownBy(q, i - 1) < Started(c)
                                  /\ GrownBy(q, i) = 0
                                         \/ Started(c) < GrownBy(q, i)
                           /\ GrownBy(q, i) # 0 =>
                                  /\ HeightAt(c) # 0
                                  /\ HeightAt(c) < GrownBy(q, i)
                /\ HeightAt(q) # 0 =>
                       /\ PositionAt(q) # 0 /\ PositionAt(q) < HeightAt(q)
                       /\ \A i \in 1..n :
                              /\ HeightAt(q \o <<i>>) # 0
                              /\ GrownBy(q, i) # 0
                              /\ GrownBy(q, i) < HeightAt(q)
                \* width, x and y are written by the first two calls only
                /\ \A k \in 1..Len(trace) :
                       (trace[k].box = q
                        /\ trace[k].fields
                               \cap {"content.width", "content.x",
                                     "content.y"} # {}) =>
                           k \in {WidthAt(q), PositionAt(q)}

\* C26: layout runs four phases on every Block box, in this order only:
\* its width, its position, the layout of each child in document order,
\* the parent growing by the margin-box height of a child after that
\* child's layout has finished and before the next one's starts, and its
\* own height last.  No layout of a child starts before the width, x and y
\* of the parent are final, no height is calculated before the layout of
\* every descendant has finished, and a step that follows the layout of a
\* child adds the height of that child's margin box to the parent.
C26_PhaseOrder ==
    /\ []PhasesInOrder
    /\ [][(pc = "layout" /\ Len(stack) > 1
           /\ stack[Len(stack)].phase = "returned") =>
              LET parent == stack[Len(stack) - 1].box
                  child == stack[Len(stack)].box
              IN  /\ At(layout_tree', parent).dimensions.content.height =
                         Dim(parent).content.height + MarginHeight(Dim(child))
                  /\ [At(layout_tree', parent).dimensions
                         EXCEPT !.content.height = 0] =
                     [Dim(parent) EXCEPT !.content.height = 0]]_vars

\* A root with two children, the first of which has a child, has been laid
\* out: the calls were made in the order of the phases.
C26_Witness ==
    /\ pc = "done"
    /\ Len(layout_tree.children) = 2
    /\ Len(layout_tree.children[1].children) = 1
    /\ Started(<<>>) = 1 /\ WidthAt(<<>>) = 2 /\ PositionAt(<<>>) = 3
    /\ Started(<<1>>) = 4
    /\ PositionAt(<<1>>) < Started(<<1, 1>>)
    /\ HeightAt(<<1, 1>>) < GrownBy(<<1>>, 1)
    /\ GrownBy(<<1>>, 1) < HeightAt(<<1>>)
    /\ HeightAt(<<1>>) < GrownBy(<<>>, 1)
    /\ GrownBy(<<>>, 1) < Started(<<2>>)
    /\ HeightAt(<<2>>) < GrownBy(<<>>, 2)
    /\ GrownBy(<<>>, 2) < HeightAt(<<>>)
    /\ HeightAt(<<>>) = Len(trace)


\* The box types and the children lists of a box tree, without the
\* Dimensions.
RECURSIVE Shape(_)
Shape(box) ==
    [box_type |-> box.box_type,
     children |-> [i \in 1..Len(box.children) |-> Shape(box.children[i])]]

\* The names of the fields of Dimensions.
FieldNames ==
    {"content.x", "content.y", "content.width", "content.height",
     "padding.left", "padding.right", "padding.top", "padding.bottom",
     "border.left", "border.right", "border.top", "border.bottom",
     "margin.left", "margin.right", "margin.top", "margin.bottom"}

\* The Dimensions d with the fields named in fields blanked.
Masked(d, fields) ==
    LET v(name, x) == IF name \in fields THEN 0 ELSE x
    IN  [content |-> [x |-> v("content.x", d.content.x),
                      y |-> v("content.y", d.content.y),
                      width |-> v("content.width", d.content.width),
                      height |-> v("content.height", d.content.height)],
         padding |-> [left |-> v("padding.left", d.padding.left),
                      right |-> v("padding.right", d.padding.right),
                      top |-> v("padding.top", d.padding.top),
                      bottom |-> v("padding.bottom", d.padding.bottom)],
         border |-> [left |-> v("border.left", d.border.left),
                     right |-> v("border.right", d.border.right),
                     top |-> v("border.top", d.border.top),
                     bottom |-> v("border.bottom", d.border.bottom)],
         margin |-> [left |-> v("margin.left", d.margin.left),
                     right |-> v("margin.right", d.margin.right),
                     top |-> v("margin.top", d.margin.top),
                     bottom |-> v("margin.bottom", d.margin.bottom)]]

\* The places of the record of the pass at which the field f of the box at
\* path q was written.
Writes(q, f) ==
    {k \in 1..Len(trace) : trace[k].box = q /\ f \in trace[k].fields}

InPass == pc \in {"layout", "done", "unimplemented"}

\* The style tree and the shape of the box tree are those the pass started
\* with.
OnlyDimensionsChanged ==
    /\ styled = style_tree(document, <<>>, stylesheet)
    /\ Shape(layout_tree) = Shape(build_layout_tree(styled, <<>>))

\* A step of the pass changes nothing but the fields its record names, of
\* the box its record names.
WritesAreRecorded ==
    /\ styled' = styled /\ document' = document /\ stylesheet' = stylesheet
    /\ Shape(layout_tree') = Shape(layout_tree)
    /\ IF trace' = trace THEN layout_tree' = layout_tree
       ELSE LET e == trace'[Len(trace')]
            IN  /\ Len(trace') = Len(trace) + 1
                /\ e.box \in PathsOf(layout_tree)
                /\ e.fields \subseteq FieldNames
                /\ \A q \in PathsOf(layout_tree) :
                       LET written == IF q = e.box THEN e.fields ELSE {}
                       IN  Masked(At(layout_tree', q).dimensions, written) =
                           Masked(Dim(q), written)

\* C28 as stated: during one layout pass nothing changes but the Dimensions
\* of the boxes, and every field of the Dimensions of a box, content.height
\* included, is written at most once.
C28_EveryFieldWrittenOnce ==
    InPass =>
        /\ OnlyDimensionsChanged
        /\ \A q \in PathsOf(layout_tree) : \A f \in FieldNames :
               Cardinality(Writes(q, f)) <= 1

\* C28, amended: during one layout pass nothing changes but the Dimensions
\* of the boxes; every field of the Dimensions of a box other than
\* content.height is written at most once, and content.height is written
\* once for each child the box has, after the layout of that child, and
\* once more by calculate_block_height when the box has a height in px.
C28_FrameAndWrites ==
    /\ [](InPass =>
            /\ OnlyDimensionsChanged
            /\ \A q \in PathsOf(layout_tree) :
                   /\ \A f \in FieldNames \ {"content.height"} :
                          Cardinality(Writes(q, f)) <= 1
                   /\ Writes(q, "content.height") =
                          Calls(q, "layout_block_children")
                          \cup (IF /\ Calls(q, "calculate_block_height") # {}
                                   /\ height_fields(At(layout_tree, q),
                                                    styled) # {}
                                THEN Calls(q, "calculate_block_height")
                                ELSE {})
                   /\ Cardinality(Calls(q, "layout_block_children"))
                          <= Len(At(layout_tree, q).children)
                   /\ Cardinality(Calls(q, "calculate_block_height")) <= 1)
    /\ [][(pc' \in {"layout", "done", "unimplemented"}) =>
              WritesAreRecorded]_vars

\* A box with two children and a height in px has been laid out: its
\* content.height was written three times, every other field once.
C28_Witness ==
    /\ pc = "done"
    /\ Len(layout_tree.children) = 2
    /\ height_fields(layout_tree, styled) # {}
    /\ Cardinality(Writes(<<>>, "content.height")) = 3
    /\ \A f \in FieldNames \ {"content.height"} :
           Cardinality(Writes(<<>>, f)) = 1


\* The type of the box at path b of the box tree, and of its parent.
TypeAt(b) == At(layout_tree, b).box_type.type
ParentOf(b) == SubSeq(b, 1, Len(b) - 1)

\* The box made for a styled node has the type of its display.
TypeOfDisplay(ref) ==
    IF Shown(At(styled, ref)) = "Block" THEN "BlockNode" ELSE "InlineNode"

\* C29: in every box tree that build_layout_tree returns (1) an
\* AnonymousBlock is a direct child of a BlockNode box and never the root,
\* (2) an AnonymousBlock has at least one child and InlineNode children
\* only, (3) no two adjacent siblings are both AnonymousBlocks, (4) the
\* direct children of a BlockNode box are BlockNode or AnonymousBlock
\* boxes, and (5) the children of an InlineNode box are the boxes of its
\* retained Block and Inline children, in document order, none of them an
\* AnonymousBlock.
C29_BoxTreeInvariants ==
    pc = "built" =>
        \A b \in PathsOf(layout_tree) :
            LET box == At(layout_tree, b)
                kids == box.children
            IN  /\ TypeAt(b) = "AnonymousBlock" =>
                       /\ b # <<>>
                       /\ TypeAt(ParentOf(b)) = "BlockNode"
                       /\ kids # <<>>
                       /\ \A k \in 1..Len(kids) :
                              TypeAt(b \o <<k>>) = "InlineNode"
                /\ \A k \in 1..(Len(kids) - 1) :
                       {TypeAt(b \o <<k>>), TypeAt(b \o <<k + 1>>)}
                           # {"AnonymousBlock"}
                /\ TypeAt(b) = "BlockNode" =>
                       \A k \in 1..Len(kids) :
                           TypeAt(b \o <<k>>) # "InlineNode"
                /\ TypeAt(b) = "InlineNode" =>
                       LET kept == Retained(box.box_type.style_node)
                       IN  /\ Len(kids) = Len(kept)
                           /\ \A k \in 1..Len(kids) :
                                  /\ TypeAt(b \o <<k>>) # "AnonymousBlock"
                                  /\ kids[k].box_type.style_node = kept[k]
                                  /\ TypeAt(b \o <<k>>) = TypeOfDisplay(kept[k])

\* A Block root whose only child is Inline and has a Block and an Inline
\* child of its own: an AnonymousBlock under the root holds the InlineNode
\* box, which holds a BlockNode and an InlineNode box directly.
C29_Witness ==
    /\ pc = "built"
    /\ TypeAt(<<>>) = "BlockNode"
    /\ Len(layout_tree.children) = 1
    /\ TypeAt(<<1>>) = "AnonymousBlock"
    /\ Len(layout_tree.children[1].children) = 1
    /\ TypeAt(<<1, 1>>) = "InlineNode"
    /\ Len(At(layout_tree, <<1, 1>>).children) = 2
    /\ TypeAt(<<1, 1, 1>>) = "BlockNode"
    /\ TypeAt(<<1, 1, 2>>) = "InlineNode"


\* The places of the declarations of name in the rule r, and the value of
\* the last of them.
DeclaredAt(r, name) ==
    {k \in 1..Len(r.declarations) : r.declarations[k].name = name}

LastDeclared(r, name) == r.declarations[Max(DeclaredAt(r, name))].value

\* The matching rule j is processed after the matching rule i: the rules
\* are processed in ascending order of their winning specificity, those of
\* equal specificity in stylesheet order.
ProcessedAfter(j, i) ==
    LET wi == WinningSpecificity(elem, stylesheet.rules[i])
        wj == WinningSpecificity(elem, stylesheet.rules[j])
    IN  Higher(wj, wi) \/ (wj = wi /\ j > i)

\* C30: when a matching rule declares a property more than once and no
\* matching rule processed after it declares that property, the value of
\* the property in the cascade result is the one of the last declaration
\* of the property in that rule.
C30_LaterDeclarationOverwrites ==
    pc = "styled" =>
        \A name \in DOMAIN values : \A i \in Declaring(name) :
            ( /\ Cardinality(DeclaredAt(stylesheet.rules[i], name)) >= 2
              /\ \A j \in Declaring(name) \ {i} : ~ProcessedAfter(j, i) )
            => values[name] = LastDeclared(stylesheet.rules[i], name)

\* A rule that declares color Black and then color White is the last rule
\* processed, after one that declares color Black: the result is White.
C30_Witness ==
    /\ pc = "styled"
    /\ "color" \in DOMAIN values
    /\ \E i, j \in Declaring("color") :
          /\ ProcessedAfter(i, j)
          /\ \A k \in Declaring("color") \ {i} : ~ProcessedAfter(k, i)
          /\ stylesheet.rules[i].declarations =
                 <<Declaration("color", Black), Declaration("color", White)>>
          /\ stylesheet.rules[j].declarations = <<Declaration("color", Black)>>
          /\ values["color"] = White

====
